---- MODULE Spec2Model ----
(***************************************************************************)
(* A model of the klf-require tokenizer core: the recognizer registry of   *)
(* ExtensionLoader (initialize), the engine AstBuilder / AstBuilderJS      *)
(* (nextToken, tokenize, removeProvider, the position tracker, the context *)
(* and open-token stacks) and the built-in recognizers.                    *)
(*                                                                         *)
(* Text is modelled as sequences of one-character strings, so that the     *)
(* recognizers work on the characters of the source as the code does.      *)
(* JavaScript `undefined` is modelled by an empty option <<>>, a defined   *)
(* value v by <<v>>.                                                       *)
(***************************************************************************)
EXTENDS Integers, Sequences, FiniteSets, TLC

\* ------------------------------------------------------------------ bounds
\* Longest source text an engine is created with.
MaxLen == 2
\* Most API calls made on one engine instance after its construction.
MaxCalls == 3

\* --------------------------------------------------------- text primitives
Min(a, b) == IF a < b THEN a ELSE b
Max(a, b) == IF a > b THEN a ELSE b

\* String.prototype.slice(a, b) with a >= 0; b may be negative or past the end.
Slice(s, a, b) ==
    LET hi == IF b < 0 THEN Max(Len(s) + b, 0) ELSE Min(b, Len(s))
        lo == Min(a, Len(s))
    IN IF lo < hi THEN SubSeq(s, lo + 1, hi) ELSE <<>>

\* String.prototype.slice(a): the text from offset a on.
SliceFrom(s, a) == Slice(s, a, Len(s))

\* s.startsWith(p)
StartsWith(s, p) == Len(p) <= Len(s) /\ SubSeq(s, 1, Len(p)) = p

\* s.endsWith(p)
EndsWith(s, p) == Len(p) <= Len(s) /\ SubSeq(s, Len(s) - Len(p) + 1, Len(s)) = p

\* String.prototype.indexOf(p): zero-based offset of the first occurrence, or -1.
IndexOf(s, p) ==
    LET hits == {i \in 0..(Len(s) - Len(p)) : SubSeq(s, i + 1, i + Len(p)) = p}
    IN IF hits = {} THEN -1 ELSE CHOOSE i \in hits : \A j \in hits : i <= j

\* The characters the regular expression class \s matches (those the model uses).
WhitespaceChars == {" ", "\n", "\t"}
\* The characters [\p{L}_$] matches (those the model uses).
LowerLetters ==
    <<"a", "b", "c", "d", "e", "f", "g", "h", "i", "j", "k", "l", "m",
      "n", "o", "p", "q", "r", "s", "t", "u", "v", "w", "x", "y", "z">>
UpperLetters ==
    <<"A", "B", "C", "D", "E", "F", "G", "H", "I", "J", "K", "L", "M",
      "N", "O", "P", "Q", "R", "S", "T", "U", "V", "W", "X", "Y", "Z">>
Range(f) == {f[i] : i \in DOMAIN f}
LetterChars == Range(LowerLetters) \cup Range(UpperLetters) \cup {"_", "$"}
DigitChars == {"0", "1", "2", "3", "4", "5", "6", "7", "8", "9"}

\* Length of the longest prefix of s whose characters all lie in set.
RECURSIVE RunLength(_, _)
RunLength(s, set) ==
    IF s = <<>> \/ Head(s) \notin set THEN 0 ELSE 1 + RunLength(Tail(s), set)

\* String.prototype.toLowerCase on one character.
LowerChar(c) ==
    IF c \in Range(UpperLetters)
    THEN LowerLetters[CHOOSE i \in 1..26 : UpperLetters[i] = c]
    ELSE c
ToLowerCase(s) == [i \in 1..Len(s) |-> LowerChar(s[i])]

\* ------------------------------------------------------------- TokenType
\* The keys of the TokenType enum in declaration order; createEnum numbers them from 0.
TokenTypeKeys ==
    << <<"U", "n", "k", "n", "o", "w", "n">>,
       <<"A", "r", "r", "o", "w", "F", "u", "n", "c", "t", "i", "o", "n">>,
       <<"A", "s", "s", "i", "g", "n", "m", "e", "n", "t">>,
       <<"B", "l", "o", "c", "k", "S", "t", "a", "t", "e", "m", "e", "n", "t">>,
       <<"B", "l", "o", "c", "k", "S", "t", "a", "t", "e", "m", "e", "n", "t", "E", "n", "d">>,
       <<"B", "l", "o", "c", "k", "S", "t", "a", "t", "e", "m", "e", "n", "t", "S", "t", "a", "r", "t">>,
       <<"C", "u", "r", "l", "y", "B", "r", "a", "c", "e">>,
       <<"C", "l", "a", "s", "s">>,
       <<"C", "l", "a", "s", "s", "B", "o", "d", "y">>,
       <<"C", "o", "m", "m", "e", "n", "t", "B", "l", "o", "c", "k">>,
       <<"C", "o", "m", "m", "e", "n", "t", "I", "n", "l", "i", "n", "e">>,
       <<"E", "q", "u", "a", "l", "i", "t", "y">>,
       <<"F", "u", "n", "c", "t", "i", "o", "n">>,
       <<"G", "l", "o", "b", "a", "l">>,
       <<"I", "d", "e", "n", "t", "i", "f", "i", "e", "r">>,
       <<"M", "e", "m", "b", "e", "r">>,
       <<"N", "u", "m", "b", "e", "r">>,
       <<"P", "a", "r", "a", "m", "e", "t", "e", "r">>,
       <<"P", "a", "r", "a", "m", "e", "t", "e", "r", "L", "i", "s", "t">>,
       <<"P", "a", "r", "a", "m", "e", "t", "e", "r", "L", "i", "s", "t", "E", "n", "d">>,
       <<"P", "a", "r", "a", "n", "t", "h", "e", "s", "i", "s">>,
       <<"R", "a", "w", "T", "e", "x", "t">>,
       <<"R", "e", "s", "e", "r", "v", "e", "d", "W", "o", "r", "d">>,
       <<"S", "e", "m", "i", "c", "o", "l", "o", "n">>,
       <<"W", "h", "i", "t", "e", "s", "p", "a", "c", "e">> >>

\* The numeric value createEnum gives each key.
TokenType ==
    [Unknown |-> 0,
     ArrowFunction |-> 1,
     Assignment |-> 2,
     BlockStatement |-> 3,
     BlockStatementEnd |-> 4,
     BlockStatementStart |-> 5,
     CurlyBrace |-> 6,
     Class |-> 7,
     ClassBody |-> 8,
     CommentBlock |-> 9,
     CommentInline |-> 10,
     Equality |-> 11,
     Function |-> 12,
     Global |-> 13,
     Identifier |-> 14,
     Member |-> 15,
     Number |-> 16,
     Parameter |-> 17,
     ParameterList |-> 18,
     ParameterListEnd |-> 19,
     Paranthesis |-> 20,
     RawText |-> 21,
     ReservedWord |-> 22,
     Semicolon |-> 23,
     Whitespace |-> 24]

\* ------------------------------------------------------ built-in recognizers
Whitespace_re ==
    <<"/", "^", "(", "?", "<", "w", "h", "i", "t", "e", "s", "p", "a", "c", "e", ">", "[",
    "\\", "s", "]", "+", ")", "/">>
Identifier_re ==
    <<"/", "^", "(", "?", "<", "i", "d", "e", "n", "t", "i", "f", "i", "e", "r", ">", "[",
    "\\", "p", "{", "L", "}", "_", "$", "]", "[", "\\", "p", "{", "L", "}", "\\", "p", "{",
    "N", "}", "_", "$", "]", "*", ")", "/", "u">>
Class_re ==
    <<"/", "^", "(", "?", "<", "r", "a", "w", ">", "c", "l", "a", "s", "s", ")", "/">>
CurlyBrace_re ==
    <<"/", "^", "(", "?", "<", "r", "a", "w", ">", "[", "\\", "{", "\\", "}", "]", ")", "/">>
Paranthesis_re ==
    <<"/", "^", "(", "?", "<", "r", "a", "w", ">", "[", "\\", "(", "\\", ")", "]", ")", "/">>
Equality_re ==
    <<"/", "^", "(", "?", "<", "o", "p", "e", "r", "a", "t", "o", "r", ">", "(", "?", ":", "=",
    "=", "=", "|", "=", "=", "|", "\\", "!", "=", "=", "|", "\\", "!", "=", ")", ")", "/">>
Assignment_re ==
    <<"/", "(", "?", "<", "o", "p", "e", "r", "a", "t", "o", "r", ">", "=", "|", "\\", "+",
    "=", "|", "-", "=", "|", "\\", "*", "=", "|", "\\", "/", "=", "|", "%", "=", "|", "\\",
    "*", "\\", "*", "=", "|", "<", "<", "=", "|", ">", ">", "=", "|", ">", ">", ">", "=", "|",
    "&", "=", "|", "\\", "^", "=", "|", "\\", "|", "=", "|", "&", "&", "=", "|", "\\", "|",
    "\\", "|", "=", "|", "\\", "?", "\\", "?", "=", ")", "/">>

\* The registry names of the built-in recognizers (the keys of the default tokenProviders).
AstAssignment == <<"A", "s", "t", "A", "s", "s", "i", "g", "n", "m", "e", "n", "t">>
AstClass == <<"A", "s", "t", "C", "l", "a", "s", "s">>
AstCommentBlock == <<"A", "s", "t", "C", "o", "m", "m", "e", "n", "t", "B", "l", "o", "c", "k">>
AstCommentInline == <<"A", "s", "t", "C", "o", "m", "m", "e", "n", "t", "I", "n", "l", "i", "n", "e">>
AstCurlyBrace == <<"A", "s", "t", "C", "u", "r", "l", "y", "B", "r", "a", "c", "e">>
AstEquality == <<"A", "s", "t", "E", "q", "u", "a", "l", "i", "t", "y">>
AstFunction == <<"A", "s", "t", "F", "u", "n", "c", "t", "i", "o", "n">>
AstGlobal == <<"A", "s", "t", "G", "l", "o", "b", "a", "l">>
AstIdentifier == <<"A", "s", "t", "I", "d", "e", "n", "t", "i", "f", "i", "e", "r">>
AstNumber == <<"A", "s", "t", "N", "u", "m", "b", "e", "r">>
AstParanthesis == <<"A", "s", "t", "P", "a", "r", "a", "n", "t", "h", "e", "s", "i", "s">>
AstSemicolon == <<"A", "s", "t", "S", "e", "m", "i", "c", "o", "l", "o", "n">>
AstWhitespace == <<"A", "s", "t", "W", "h", "i", "t", "e", "s", "p", "a", "c", "e">>

\* Number.MAX_SAFE_INTEGER. The model checker's integers are 32 bits wide, so the
\* model uses the largest of them; the value is only ever compared with other weights
\* and ids, all of them far smaller.
MAX_SAFE_INTEGER == 2147483647

StringCond(text) == [type |-> "string", text |-> text]
RegExpCond(text) == [type |-> "regex", text |-> text]
\* GeneratorBase's default condition, () => true.
FunctionCond == [type |-> "function", text |-> <<>>]

\* The weight a one-character literal condition is given: 100 plus its length.
OneCharLiteralWeight == 100 + Len(<<" ">>)
\* The weight the whitespace recognizer passes to its base constructor.
WhitespaceWeight == 1000000

\* What each built-in recognizer class hands to the base constructor: its match
\* condition, its explicit weight and token type when it gives one, and whether it
\* spreads the settings it was constructed with (name, id) into the instance.
ProviderClass(kind) ==
    CASE kind = "Assignment" ->
           [cond |-> RegExpCond(Assignment_re), weight |-> <<>>, tokenType |-> <<>>, spread |-> TRUE]
      [] kind = "Class" ->
           [cond |-> RegExpCond(Class_re), weight |-> <<200>>, tokenType |-> <<>>, spread |-> FALSE]
      [] kind = "CommentBlock" ->
           [cond |-> StringCond(<<"/", "*">>), weight |-> <<>>, tokenType |-> <<>>, spread |-> TRUE]
      [] kind = "CommentInline" ->
           [cond |-> StringCond(<<"/", "/">>), weight |-> <<>>, tokenType |-> <<>>, spread |-> TRUE]
      [] kind = "CurlyBrace" ->
           [cond |-> RegExpCond(CurlyBrace_re), weight |-> <<>>,
            tokenType |-> <<TokenType.CurlyBrace>>, spread |-> TRUE]
      [] kind = "Equality" ->
           [cond |-> RegExpCond(Equality_re), weight |-> <<>>, tokenType |-> <<>>, spread |-> TRUE]
      [] kind = "Function" ->
           [cond |-> StringCond(<<"f", "u", "n", "c", "t", "i", "o", "n">>), weight |-> <<>>,
            tokenType |-> <<>>, spread |-> TRUE]
      [] kind = "Global" ->
           [cond |-> FunctionCond, weight |-> <<MAX_SAFE_INTEGER>>, tokenType |-> <<>>, spread |-> TRUE]
      [] kind = "Identifier" ->
           [cond |-> RegExpCond(Identifier_re), weight |-> <<300>>, tokenType |-> <<>>, spread |-> FALSE]
      [] kind = "Number" ->
           [cond |-> FunctionCond, weight |-> <<>>, tokenType |-> <<>>, spread |-> TRUE]
      [] kind = "Paranthesis" ->
           [cond |-> RegExpCond(Paranthesis_re), weight |-> <<>>,
            tokenType |-> <<TokenType.Paranthesis>>, spread |-> TRUE]
      [] kind = "Semicolon" ->
           [cond |-> StringCond(<<";">>), weight |-> <<>>,
            tokenType |-> <<TokenType.Semicolon>>, spread |-> TRUE]
      [] kind = "Whitespace" ->
           [cond |-> RegExpCond(Whitespace_re), weight |-> <<WhitespaceWeight>>, tokenType |-> <<>>, spread |-> TRUE]

\* ----------------------------------------------------------- weight calculator
\* parseRegex: the successive leftmost matches of /(\[.*?\])|(\(.*?\))/g in the text
\* of a regular expression, each tagged as a character class or a capture.
\* The nested parse kept in captureDef is read by nobody and is left out.
RECURSIVE parseRegex(_)
parseRegex(regex) ==
    LET closer(i) == IF regex[i] = "[" THEN "]" ELSE ")"
        ends(i) == {j \in (i + 1)..Len(regex) :
                      /\ regex[j] = closer(i)
                      /\ \A k \in (i + 1)..(j - 1) : regex[k] # "\n"}
        starts == {i \in 1..Len(regex) : regex[i] \in {"[", "("} /\ ends(i) # {}}
    IN IF starts = {} THEN <<>>
       ELSE LET i == CHOOSE x \in starts : \A y \in starts : x <= y
                j == CHOOSE x \in ends(i) : \A y \in ends(i) : x <= y
                group == SubSeq(regex, i, j)
            IN <<[reclass |-> IF regex[i] = "[" THEN <<group>> ELSE <<>>,
                  capture |-> IF regex[i] = "(" THEN <<group>> ELSE <<>>]>>
               \o parseRegex(SubSeq(regex, j + 1, Len(regex)))

\* The weight of a pattern: -1, changed by each character class found.
RECURSIVE weighMatches(_, _)
weighMatches(matches, weight) ==
    IF matches = <<>> THEN weight
    ELSE LET data == Head(matches)
             delta == IF data.reclass = <<>> THEN 0
                      ELSE IF EndsWith(data.reclass[1], <<"*">>) THEN -100
                      ELSE IF EndsWith(data.reclass[1], <<"+">>) THEN -50
                      ELSE IF EndsWith(data.reclass[1], <<"]">>) THEN 50
                      ELSE 0
         IN weighMatches(Tail(matches), weight + delta)

\* Whether calculateWeight sets hasCapture: some match is a capture, not a class.
HasCapture(cond) ==
    /\ cond.type = "regex"
    /\ \E k \in DOMAIN parseRegex(cond.text) : parseRegex(cond.text)[k].capture # <<>>

calculateWeight(cond) ==
    IF cond.type = "string" THEN 100 + Len(cond.text)
    ELSE IF cond.type = "regex" THEN weighMatches(parseRegex(cond.text), -1)
    ELSE 1

\* ------------------------------------------------------------------ registry
\* The value TokenType[lookup] when it is a number: createEnum stores every key and
\* its lower-case form.
EnumValue(lookup) ==
    LET hits == {i \in DOMAIN TokenTypeKeys :
                   lookup = TokenTypeKeys[i] \/ lookup = ToLowerCase(TokenTypeKeys[i])}
    IN IF hits = {} THEN <<>> ELSE <<(CHOOSE i \in hits : TRUE) - 1>>

\* The recognizer instance `new type({ name, loader, id, tokenName })` builds.
\* key is the registry name; name and id are what the instance itself carries.
NewProvider(key, kind, enumValue) ==
    LET cls == ProviderClass(kind)
    IN [key |-> key,
        kind |-> kind,
        name |-> IF cls.spread THEN <<key>> ELSE <<>>,
        id |-> IF cls.spread THEN <<enumValue>> ELSE <<>>,
        weight |-> IF cls.weight # <<>> THEN cls.weight[1] ELSE calculateWeight(cls.cond),
        hasCapture |-> HasCapture(cls.cond),
        tokenType |-> cls.tokenType]

\* The recognizer `new AstTokenProvider({ name, ...type, id, loader, tokenName })`
\* builds from a settings object that gives only a condition: its weight is calculated.
AstTokenProvider(key, condition, enumValue) ==
    [key |-> key,
     kind |-> "object",
     name |-> <<key>>,
     id |-> <<enumValue>>,
     weight |-> calculateWeight(condition),
     hasCapture |-> HasCapture(condition),
     tokenType |-> <<>>]

\* String.prototype.localeCompare for the names the model uses: letters compare
\* alphabetically whatever their case, a shorter text sorts before its extensions,
\* and texts equal up to case sort lower case first.
LetterRank ==
    [c \in Range(LowerLetters) \cup Range(UpperLetters) |->
        CHOOSE i \in 1..26 : LowerLetters[i] = c \/ UpperLetters[i] = c]
CharRank(c) ==
    IF c \in DOMAIN LetterRank THEN 100 + LetterRank[c]
    ELSE IF c \in DigitChars THEN 50 ELSE 0
RECURSIVE localeCompare(_, _)
localeCompare(a, b) ==
    IF a = <<>> /\ b = <<>> THEN 0
    ELSE IF a = <<>> THEN -1
    ELSE IF b = <<>> THEN 1
    ELSE IF Head(a) = Head(b) THEN localeCompare(Tail(a), Tail(b))
    ELSE IF CharRank(Head(a)) < CharRank(Head(b)) THEN -1
    ELSE IF CharRank(Head(a)) > CharRank(Head(b)) THEN 1
    ELSE LET rest == localeCompare(Tail(a), Tail(b))
         IN IF rest # 0 THEN rest
            ELSE IF Head(a) \in Range(LowerLetters) THEN -1 ELSE 1

\* What `undefined` turns into when localeCompare converts its argument to a string.
UndefinedText == <<"u", "n", "d", "e", "f", "i", "n", "e", "d">>

\* The comparator of initialize: [threw, value]. Reading localeCompare off an
\* instance without a name is a TypeError.
CompareNameFirst(a, b) ==
    IF a.name = <<>> THEN [threw |-> TRUE, value |-> 0]
    ELSE [threw |-> FALSE,
          value |-> localeCompare(a.name[1], IF b.name = <<>> THEN UndefinedText ELSE b.name[1])]

\* The comparator with its weight tests the other way round: lighter first.
CompareAscending(a, b) ==
    IF a.weight < b.weight THEN [threw |-> FALSE, value |-> -1]
    ELSE IF a.weight > b.weight THEN [threw |-> FALSE, value |-> 1]
    ELSE CompareNameFirst(a, b)

\* The comparator of initialize: weight descending, then name.
CompareProviders(a, b) ==
    IF a.weight > b.weight THEN [threw |-> FALSE, value |-> -1]
    ELSE IF a.weight < b.weight THEN [threw |-> FALSE, value |-> 1]
    ELSE CompareNameFirst(a, b)

\* Array.prototype.sort with that comparator, as a stable insertion sort: each
\* element goes before the first one it compares below.
RECURSIVE InsertSorted(_, _)
InsertSorted(sorted, p) ==
    IF sorted.threw \/ sorted.list = <<>> THEN [sorted EXCEPT !.list = <<p>> \o @]
    ELSE LET c == CompareProviders(p, Head(sorted.list))
         IN IF c.threw THEN [sorted EXCEPT !.threw = TRUE]
            ELSE IF c.value < 0 THEN [sorted EXCEPT !.list = <<p>> \o @]
            ELSE LET rest == InsertSorted([sorted EXCEPT !.list = Tail(@)], p)
                 IN [rest EXCEPT !.list = <<Head(sorted.list)>> \o @]

RECURSIVE SortProviders(_)
SortProviders(list) ==
    IF list = <<>> THEN [threw |-> FALSE, list |-> <<>>]
    ELSE InsertSorted(SortProviders(SubSeq(list, 1, Len(list) - 1)), list[Len(list)])

\* ExtensionLoader.initialize over the entries <<key, kind>> of tokenProviders (a
\* recognizer class) or <<key, "object", condition>> (a settings object), in
\* insertion order: every entry gets an id (its token type, or the next synthetic id
\* counting down), an instance, a by-id slot and a place in the list, which is then
\* sorted. byId maps an id to the registry name of the instance stored under it.
RECURSIVE RegisterAll(_, _)
RegisterAll(entries, acc) ==
    IF entries = <<>> THEN acc
    ELSE LET key == Head(entries)[1]
             kind == Head(entries)[2]
             enumLookup == IF StartsWith(key, <<"A", "s", "t">>) THEN SliceFrom(key, 3) ELSE key
             known == EnumValue(enumLookup)
             enumValue == IF known # <<>> THEN known[1] ELSE acc.nextId
             instance == IF kind = "object" THEN AstTokenProvider(key, Head(entries)[3], enumValue)
                         ELSE NewProvider(key, kind, enumValue)
         IN RegisterAll(Tail(entries),
               [nextId |-> IF known # <<>> THEN acc.nextId ELSE acc.nextId - 1,
                byId |-> [i \in DOMAIN acc.byId \cup {enumValue} |->
                            IF i = enumValue THEN key ELSE acc.byId[i]],
                list |-> Append(acc.list, instance),
                instances |-> [k \in DOMAIN acc.instances \cup {key} |->
                                 IF k = key THEN instance ELSE acc.instances[k]]])

initialize(entries) ==
    LET reg == RegisterAll(entries,
                  [nextId |-> MAX_SAFE_INTEGER - 1, byId |-> <<>>, list |-> <<>>,
                   instances |-> <<>>])
        sorted == SortProviders(reg.list)
    IN [threw |-> sorted.threw,
        tokenProviders |-> {entries[k][1] : k \in DOMAIN entries},
        tokenProvidersById |-> reg.byId,
        tokenProvidersSorted |-> [k \in DOMAIN sorted.list |-> sorted.list[k].key],
        instances |-> reg.instances]

\* The default tokenProviders of the JavaScript loader.
DefaultProviders ==
    << <<AstAssignment, "Assignment">>, <<AstClass, "Class">>,
       <<AstCommentBlock, "CommentBlock">>, <<AstCommentInline, "CommentInline">>,
       <<AstCurlyBrace, "CurlyBrace">>, <<AstEquality, "Equality">>,
       <<AstFunction, "Function">>, <<AstGlobal, "Global">>,
       <<AstIdentifier, "Identifier">>, <<AstNumber, "Number">>,
       <<AstParanthesis, "Paranthesis">>, <<AstSemicolon, "Semicolon">>,
       <<AstWhitespace, "Whitespace">> >>

\* ------------------------------------------------------------------ engine
\* The lower-case texts `in ReservedWord` accepts: the values of the enum, which are
\* also its lower-cased keys, and the enum's own lower-case method name parse.
ReservedWord ==
    {<<"a", "w", "a", "i", "t">>,
     <<"b", "r", "e", "a", "k">>,
     <<"c", "a", "s", "e">>,
     <<"c", "a", "t", "c", "h">>,
     <<"c", "l", "a", "s", "s">>,
     <<"c", "o", "n", "s", "t">>,
     <<"c", "o", "n", "t", "i", "n", "u", "e">>,
     <<"d", "e", "b", "u", "g", "g", "e", "r">>,
     <<"d", "e", "f", "a", "u", "l", "t">>,
     <<"d", "e", "l", "e", "t", "e">>,
     <<"d", "o">>,
     <<"e", "l", "s", "e">>,
     <<"e", "x", "p", "o", "r", "t">>,
     <<"e", "x", "t", "e", "n", "d", "s">>,
     <<"f", "i", "n", "a", "l", "l", "y">>,
     <<"f", "o", "r">>,
     <<"f", "u", "n", "c", "t", "i", "o", "n">>,
     <<"i", "f">>,
     <<"i", "m", "p", "l", "e", "m", "e", "n", "t", "s">>,
     <<"i", "n">>,
     <<"i", "n", "t", "e", "r", "f", "a", "c", "e">>,
     <<"i", "n", "s", "t", "a", "n", "c", "e", "o", "f">>,
     <<"l", "e", "t">>,
     <<"n", "e", "w">>,
     <<"p", "a", "c", "k", "a", "g", "e">>,
     <<"p", "r", "i", "v", "a", "t", "e">>,
     <<"p", "r", "o", "t", "e", "c", "t", "e", "d">>,
     <<"p", "u", "b", "l", "i", "c">>,
     <<"r", "e", "t", "u", "r", "n">>,
     <<"s", "t", "a", "t", "i", "c">>,
     <<"s", "u", "p", "e", "r">>,
     <<"s", "w", "i", "t", "c", "h">>,
     <<"t", "h", "i", "s">>,
     <<"t", "h", "r", "o", "w">>,
     <<"t", "r", "y">>,
     <<"t", "y", "p", "e", "o", "f">>,
     <<"v", "a", "r">>,
     <<"v", "o", "i", "d">>,
     <<"w", "h", "i", "l", "e">>,
     <<"w", "i", "t", "h">>,
     <<"y", "i", "e", "l", "d">>,
     <<"p", "a", "r", "s", "e">>}

\* The context an engine starts with (this.context = false), the value read off an
\* emptied stack, and a context frame. scope "" is a falsy scope.
FalseContext == [tag |-> "false", scope |-> "", thisClass |-> <<>>]
UndefinedContext == [tag |-> "undefined", scope |-> "", thisClass |-> <<>>]
Frame(scope, thisClass) == [tag |-> "object", scope |-> scope, thisClass |-> thisClass]

\* new AstBuilder(settings): a fresh engine over source with its own copies of the
\* loader's three indices.
AstBuilder(ldr, source) ==
    [variant |-> "base",
     indices |-> "own",
     source |-> source,
     remainder |-> source,
     contextStack |-> <<>>,
     context |-> FalseContext,
     openTokens |-> <<>>,
     allTokens |-> <<>>,
     position |-> [line |-> 0, char |-> 0, col |-> 0],
     tokenProviders |-> ldr.tokenProviders,
     tokenProvidersById |-> ldr.tokenProvidersById,
     tokenProvidersSorted |-> ldr.tokenProvidersSorted]

\* pushContext: the new frame is the old top overlaid with the new fields.
pushContext(e, scope, thisClass) ==
    LET top == IF e.contextStack = <<>> THEN Frame("", <<>>) ELSE e.contextStack[1]
        frame == Frame(scope, IF thisClass # <<>> THEN thisClass ELSE top.thisClass)
    IN [e EXCEPT !.contextStack = <<frame>> \o @, !.context = frame]

\* new AstBuilderJS(settings): the base engine with the synthetic root frame pushed.
AstBuilderJS(ldr, source) ==
    pushContext([AstBuilder(ldr, source) EXCEPT !.variant = "js"], "", <<>>)

\* A count that never resets the column: the newlines in str and col plus its length.
countLinesKeepingColumn(str, col) ==
    [lines |-> Len(SelectSeq(str, LAMBDA c : c = "\n")), col |-> col + Len(str)]

\* countLines(str, col): the newlines in str and the column after its last character.
RECURSIVE countLines(_, _)
countLines(str, col) ==
    IF str = <<>> THEN [lines |-> 0, col |-> col]
    ELSE LET rest == countLines(Tail(str), IF Head(str) = "\n" THEN 0 ELSE col + 1)
         IN [lines |-> rest.lines + (IF Head(str) = "\n" THEN 1 ELSE 0), col |-> rest.col]

\* An end-of-input test against the remaining-text view's length, the comparison
\* eatWhitespace makes.
isEOFByRemainder(e) == e.position.char = Len(e.remainder)
\* isEOF
isEOF(e) == e.position.char = Len(e.source)

\* startToken(partial): a token at the current position, appended to allTokens.
\* A token is known by its index in allTokens. AstToken keeps type, start, raw, name
\* (and end, children, left undefined here) of the fields it is given; className is
\* the property the class recognizer adds afterwards.
startToken(e, type, raw, name) ==
    [e EXCEPT !.allTokens = Append(@, [type |-> type,
                                       start |-> e.position,
                                       end |-> <<>>,
                                       raw |-> raw,
                                       children |-> <<>>,
                                       name |-> name,
                                       className |-> <<>>])]
LastIndex(e) == Len(e.allTokens)

\* An updatePosition that gives an opened token its children list but does not put
\* it on the open-token stack.
updatePositionWithoutOpening(e, t, leaveOpen) ==
    IF e.allTokens[t].end # <<>> THEN e
    ELSE LET len == Len(e.allTokens[t].raw[1])
             counted == countLines(e.allTokens[t].raw[1], e.position.col)
             end == [char |-> e.position.char + len, col |-> counted.col,
                     line |-> e.position.line + counted.lines]
         IN [e EXCEPT !.position = end,
                      !.allTokens = IF leaveOpen
                                    THEN [@ EXCEPT ![t].children = <<(<<>>)>>]
                                    ELSE IF e.openTokens # <<>>
                                    THEN [@ EXCEPT ![e.openTokens[1]].children =
                                                       <<Append(@[1], t)>>,
                                                   ![t].end = <<end>>]
                                    ELSE [@ EXCEPT ![t].end = <<end>>],
                      !.remainder = SliceFrom(@, len)]

\* An updatePosition that stamps end on every token, opened ones included.
updatePositionStampingEnd(e, t, leaveOpen) ==
    IF e.allTokens[t].end # <<>> THEN e
    ELSE LET len == Len(e.allTokens[t].raw[1])
             counted == countLines(e.allTokens[t].raw[1], e.position.col)
             end == [char |-> e.position.char + len, col |-> counted.col,
                     line |-> e.position.line + counted.lines]
         IN [e EXCEPT !.position = end,
                      !.openTokens = IF leaveOpen THEN <<t>> \o @ ELSE @,
                      !.allTokens = IF leaveOpen
                                    THEN [@ EXCEPT ![t].children = <<(<<>>)>>,
                                                   ![t].end = <<end>>]
                                    ELSE IF e.openTokens # <<>>
                                    THEN [@ EXCEPT ![e.openTokens[1]].children =
                                                       <<Append(@[1], t)>>,
                                                   ![t].end = <<end>>]
                                    ELSE [@ EXCEPT ![t].end = <<end>>],
                      !.remainder = SliceFrom(@, len)]

\* An updatePosition that moves the byte offset by one character whatever the
\* length of the raw text.
updatePositionBySingleCharacter(e, t, leaveOpen) ==
    IF e.allTokens[t].end # <<>> THEN e
    ELSE LET len == Len(e.allTokens[t].raw[1])
             counted == countLines(e.allTokens[t].raw[1], e.position.col)
             end == [char |-> e.position.char + 1, col |-> counted.col,
                     line |-> e.position.line + counted.lines]
         IN [e EXCEPT !.position = end,
                      !.openTokens = IF leaveOpen THEN <<t>> \o @ ELSE @,
                      !.allTokens = IF leaveOpen
                                    THEN [@ EXCEPT ![t].children = <<(<<>>)>>]
                                    ELSE IF e.openTokens # <<>>
                                    THEN [@ EXCEPT ![e.openTokens[1]].children =
                                                       <<Append(@[1], t)>>,
                                                   ![t].end = <<end>>]
                                    ELSE [@ EXCEPT ![t].end = <<end>>],
                      !.remainder = SliceFrom(@, len)]

\* updatePosition(token, leaveOpen) on a token whose end is not set: advance the
\* position by the raw text, open the token or attach it to the top open token, stamp
\* end on a closed token, and cut the raw text's length off the remaining-text view.
\* On a token whose end is set it only logs.
updatePosition(e, t, leaveOpen) ==
    IF e.allTokens[t].end # <<>> THEN e
    ELSE LET token == e.allTokens[t]
             len == Len(token.raw[1])
             counted == countLines(token.raw[1], e.position.col)
             end == [char |-> e.position.char + len, col |-> counted.col,
                     line |-> e.position.line + counted.lines]
             opened == IF leaveOpen
                       THEN [e.allTokens EXCEPT ![t].children =
                                IF token.children = <<>> THEN <<(<<>>)>> ELSE @]
                       ELSE IF e.openTokens # <<>>
                       THEN [e.allTokens EXCEPT ![e.openTokens[1]].children =
                                <<Append(@[1], t)>>]
                       ELSE e.allTokens
         IN [e EXCEPT !.position = end,
                      !.openTokens = IF leaveOpen THEN <<t>> \o @ ELSE @,
                      !.allTokens = IF leaveOpen THEN opened
                                    ELSE [opened EXCEPT ![t].end = <<end>>],
                      !.remainder = SliceFrom(@, len)]

\* An endToken that accepts a token without raw text: it stamps the current position
\* as its end and raises nothing.
endTokenWithoutRaw(e, token, leaveOpen) ==
    IF token = <<>> THEN [e |-> e, threw |-> "TypeError"]
    ELSE IF e.allTokens[token[1]].raw = <<>>
    THEN [e |-> [e EXCEPT !.allTokens[token[1]].end = <<e.position>>], threw |-> ""]
    ELSE [e |-> IF e.allTokens[token[1]].end = <<>>
                THEN updatePosition(e, token[1], leaveOpen) ELSE e,
          threw |-> ""]

\* endToken(token, leaveOpen): [e, threw]. token is <<>> for undefined, else <<index>>.
endToken(e, token, leaveOpen) ==
    IF token = <<>> THEN [e |-> e, threw |-> "TypeError"]
    ELSE IF e.allTokens[token[1]].raw = <<>> THEN [e |-> e, threw |-> "Error"]
    ELSE [e |-> IF e.allTokens[token[1]].end = <<>>
                THEN updatePosition(e, token[1], leaveOpen) ELSE e,
          threw |-> ""]

\* updatePosition(token, leaveOpen) called from outside endToken: [e, threw]. Reading
\* the length of a raw text that is not set is a TypeError.
directUpdatePosition(e, t, leaveOpen) ==
    IF e.allTokens[t].end = <<>> /\ e.allTokens[t].raw = <<>>
    THEN [e |-> e, threw |-> "TypeError"]
    ELSE [e |-> updatePosition(e, t, leaveOpen), threw |-> ""]

\* isWhitespace(): /^[\s]+/ tested on the remaining text; isWhitespace(c) on the
\* character at offset c of it (the empty text past its end).
isWhitespace(e) == e.remainder # <<>> /\ e.remainder[1] \in WhitespaceChars
isWhitespaceAt(e, c) == c < Len(e.remainder) /\ e.remainder[c + 1] \in WhitespaceChars

\* eatWhitespace: [e, threw]. Builds and finishes a Whitespace token over the leading
\* whitespace; does nothing when position.char equals the remaining length or the
\* remaining text does not start with whitespace.
RECURSIVE eatWhitespaceCount(_, _, _)
eatWhitespaceCount(e, c, max) ==
    IF isWhitespaceAt(e, c)
    THEN IF c + 1 = max THEN c + 1 ELSE eatWhitespaceCount(e, c + 1, max)
    ELSE c
eatWhitespace(e) ==
    LET max == Len(e.remainder)
    IN IF e.position.char = max \/ ~isWhitespace(e) THEN [e |-> e, threw |-> ""]
       ELSE LET c == eatWhitespaceCount(e, 0, max)
                started == startToken(e, TokenType.Whitespace, <<Slice(e.remainder, 0, c)>>, <<>>)
            IN endToken(started, <<LastIndex(started)>>, FALSE)

\* removeProvider(provider): [e, result]. provider is an instance record; the by-id
\* index is probed with the id the instance carries, and `undefined in index` is false.
DropFromSorted(sorted, key) ==
    LET hits == {k \in DOMAIN sorted : sorted[k] = key}
    IN IF hits = {} THEN sorted
       ELSE LET index == CHOOSE k \in hits : \A j \in hits : k <= j
            IN SubSeq(sorted, 1, index - 1) \o SubSeq(sorted, index + 1, Len(sorted))

\* A removeProvider that leaves the sorted list alone.
removeProviderFromIndexOnly(e, provider) ==
    IF provider.id # <<>> /\ provider.id[1] \in DOMAIN e.tokenProvidersById
    THEN [e |-> [e EXCEPT
                   !.tokenProviders = IF provider.name = <<>> THEN @ ELSE @ \ {provider.name[1]},
                   !.tokenProvidersById = [i \in DOMAIN @ \ {provider.id[1]} |-> @[i]]],
          result |-> TRUE]
    ELSE [e |-> e, result |-> FALSE]

removeProvider(e, provider) ==
    IF provider.id # <<>> /\ provider.id[1] \in DOMAIN e.tokenProvidersById
    THEN [e |-> [e EXCEPT
                   !.tokenProviders = IF provider.name = <<>> THEN @ ELSE @ \ {provider.name[1]},
                   !.tokenProvidersById = [i \in DOMAIN @ \ {provider.id[1]} |-> @[i]],
                   !.tokenProvidersSorted = DropFromSorted(@, provider.key)],
          result |-> TRUE]
    ELSE [e |-> e, result |-> FALSE]

\* ------------------------------------------------------------- recognizer tests
\* Each matcher gives the text its pattern matches in r as an option: <<>> for no
\* match, <<raw>> for a match.

\* /^(?<whitespace>[\s]+)/
MatchWhitespace(r) ==
    IF RunLength(r, WhitespaceChars) > 0 THEN <<SubSeq(r, 1, RunLength(r, WhitespaceChars))>>
    ELSE <<>>

\* /^(?<identifier>[\p{L}_$][\p{L}\p{N}_$]*)/u
MatchIdentifier(r) ==
    IF r # <<>> /\ r[1] \in LetterChars
    THEN <<SubSeq(r, 1, 1 + RunLength(Tail(r), LetterChars \cup DigitChars))>>
    ELSE <<>>

\* A literal condition, and /^(?<raw>class)/: the text itself when r starts with it.
MatchLiteral(r, text) == IF text # <<>> /\ StartsWith(r, text) THEN <<text>> ELSE <<>>

\* /^(?<raw>[\{\}])/ and /^(?<raw>[\(\)])/: one character of the class.
MatchOneOf(r, set) == IF r # <<>> /\ r[1] \in set THEN <<SubSeq(r, 1, 1)>> ELSE <<>>

\* An alternation at the start of r: the first alternative, in the order written,
\* that r starts with.
MatchAlternatives(r, alts) ==
    LET hits == {k \in DOMAIN alts : StartsWith(r, alts[k])}
    IN IF hits = {} THEN <<>> ELSE <<alts[CHOOSE k \in hits : \A j \in hits : k <= j]>>

\* /^(?<operator>(?:===|==|\!==|\!=))/
EqualityOperators == << <<"=", "=", "=">>, <<"=", "=">>, <<"!", "=", "=">>, <<"!", "=">> >>
MatchEquality(r) == MatchAlternatives(r, EqualityOperators)

\* /(?<operator>=|\+=|-=|\*=|\/=|%=|\*\*=|<<=|>>=|>>>=|&=|\^=|\|=|&&=|\|\|=|\?\?=)/
\* The pattern is not anchored: it matches at the leftmost offset of r where some
\* alternative matches.
AssignmentOperators ==
    << <<"=">>, <<"+", "=">>, <<"-", "=">>, <<"*", "=">>, <<"/", "=">>, <<"%", "=">>,
       <<"*", "*", "=">>, <<"<", "<", "=">>, <<">", ">", "=">>, <<">", ">", ">", "=">>,
       <<"&", "=">>, <<"^", "=">>, <<"|", "=">>, <<"&", "&", "=">>, <<"|", "|", "=">>,
       <<"?", "?", "=">> >>
MatchAssignment(r) ==
    LET offsets == {i \in 0..(Len(r) - 1) : MatchAlternatives(SliceFrom(r, i), AssignmentOperators) # <<>>}
    IN IF offsets = {} THEN <<>>
       ELSE MatchAlternatives(SliceFrom(r, CHOOSE i \in offsets : \A j \in offsets : i <= j),
                              AssignmentOperators)

\* NumberGenerator.test: the loop over the testers returns false as soon as the
\* first pattern does not match, and the decimal text when it does, so only
\* /^(?<decimal>[1-9](?:_?[0-9]+\.?)+(?:_?[0-9]+\.?)*n?)/ decides.
\* NumberGroup is the length of one group _?[0-9]+\.? at the start of s, 0 for none.
NumberGroup(s) ==
    LET u == IF s # <<>> /\ s[1] = "_" THEN 1 ELSE 0
        d == RunLength(SliceFrom(s, u), DigitChars)
        dot == IF Len(s) > u + d /\ s[u + d + 1] = "." THEN 1 ELSE 0
    IN IF d = 0 THEN 0 ELSE u + d + dot
RECURSIVE NumberGroups(_)
NumberGroups(s) ==
    IF NumberGroup(s) = 0 THEN 0
    ELSE NumberGroup(s) + NumberGroups(SliceFrom(s, NumberGroup(s)))
MatchNumber(r) ==
    IF r # <<>> /\ r[1] \in (DigitChars \ {"0"}) /\ NumberGroups(Tail(r)) > 0
    THEN LET n == 1 + NumberGroups(Tail(r))
         IN <<SubSeq(r, 1, n + (IF Len(r) > n /\ r[n + 1] = "n" THEN 1 ELSE 0))>>
    ELSE <<>>

\* generator.test(ast, context) for a recognizer instance p: [threw, hit, raw].
\* The root recognizer reads context.scope, a TypeError on an undefined context.
Miss == [threw |-> "", hit |-> FALSE, raw |-> <<>>]
Hit(m) == IF m = <<>> THEN Miss ELSE [threw |-> "", hit |-> TRUE, raw |-> m[1]]
test(e, p) ==
    CASE p.kind = "Global" ->
           IF e.context.tag = "undefined" THEN [threw |-> "TypeError", hit |-> FALSE, raw |-> <<>>]
           ELSE IF e.context.scope = "" THEN [threw |-> "", hit |-> TRUE, raw |-> <<>>]
           ELSE Miss
      [] p.kind = "Number" -> Hit(MatchNumber(e.remainder))
      [] p.kind = "Whitespace" -> Hit(MatchWhitespace(e.remainder))
      [] p.kind = "Identifier" -> Hit(MatchIdentifier(e.remainder))
      [] p.kind = "Class" -> Hit(MatchLiteral(e.remainder, <<"c", "l", "a", "s", "s">>))
      [] p.kind = "CurlyBrace" -> Hit(MatchOneOf(e.remainder, {"{", "}"}))
      [] p.kind = "Paranthesis" -> Hit(MatchOneOf(e.remainder, {"(", ")"}))
      [] p.kind = "Equality" -> Hit(MatchEquality(e.remainder))
      [] p.kind = "Assignment" -> Hit(MatchAssignment(e.remainder))
      [] OTHER -> Hit(MatchLiteral(e.remainder, ProviderClass(p.kind).cond.text))

\* ------------------------------------------------------------------- state
\* loader:  the ExtensionLoader: its tokenProviders entries and, once initialized,
\*          its three indices and the recognizer instances (by registry name).
\* globals: the free identifiers the host realm binds. nextToken's log lines read
\*          `loader.name` off a free identifier `loader` that no scope of the module
\*          declares: the read is a ReferenceError unless the realm binds it.
\*          popContext's error branch reads a free `filename` the same way.
\* files:   the source texts the host may hand to createTreeBuilder.
\* engines: the engine instances, NoEngine before their construction.
\* last:    for each engine, the call made last and what it returned or threw.
\* calls:   for each engine, the number of API calls made on it.
VARIABLES loader, globals, files, engines, last, calls
vars == <<loader, globals, files, engines, last, calls>>

Instance(key) == loader.instances[key]
IsProvider(entry) == entry \in DOMAIN loader.instances
\* The entries `false` and `undefined` a pipeline can hold in place of a recognizer.
FalseEntry == <<"false">>
UndefinedEntry == <<"undefined">>

\* --------------------------------------------------------------- the engine
\* popContext: [e, threw]. Shifting an empty stack takes the error branch, whose log
\* line and message read a free identifier `filename` (the engine's is
\* this.filename): a ReferenceError unless the realm binds it, the parse Error when
\* it does. Otherwise the current context becomes the new top, which is undefined
\* when the stack is now empty.
popContext(e) ==
    IF e.contextStack = <<>>
    THEN [e |-> e, threw |-> IF "filename" \in globals THEN "Error" ELSE "ReferenceError"]
    ELSE [e |-> [e EXCEPT !.contextStack = Tail(@),
                          !.context = IF Len(e.contextStack) > 1 THEN e.contextStack[2]
                                      ELSE UndefinedContext],
          threw |-> ""]

\* AstBuilder.preparePipeline(expected): [e, pipeline]. A non-empty expected list is
\* mapped through the by-id index (undefined for an id it lacks); an empty one gives
\* the sorted list itself.
basePreparePipeline(e, expected) ==
    IF Len(expected) > 0
    THEN [k \in DOMAIN expected |->
            IF expected[k] \in DOMAIN e.tokenProvidersById
            THEN e.tokenProvidersById[expected[k]] ELSE UndefinedEntry]
    ELSE e.tokenProvidersSorted

\* AstBuilderJS.preparePipeline: findIndex(p => whitespaceProvider) is -1 exactly
\* when the pipeline is empty or no recognizer is registered under the Whitespace
\* id; then getProviderById's result (the recognizer, or false) is pushed, and when
\* the pipeline is the sorted list the push lands in the engine's own list.
preparePipeline(e, expected) ==
    LET pipeline == basePreparePipeline(e, expected)
        whitespaceProvider == IF TokenType.Whitespace \in DOMAIN e.tokenProvidersById
                              THEN e.tokenProvidersById[TokenType.Whitespace]
                              ELSE FalseEntry
    IN IF e.variant = "js" /\ (pipeline = <<>> \/ whitespaceProvider = FalseEntry)
       THEN [e |-> IF Len(expected) > 0 THEN e
                   ELSE [e EXCEPT !.tokenProvidersSorted = Append(@, whitespaceProvider)],
             pipeline |-> Append(pipeline, whitespaceProvider)]
       ELSE [e |-> e, pipeline |-> pipeline]

\* What nextToken hands back: the engine afterwards and the outcome, one of
\*   "token"     { token, nextToken } was returned,
\*   "undefined" the end-of-stream sentinel was returned,
\*   "false"     the failure value was returned,
\*   "throw"     an exception of class error escaped.
\* noMatch tells that the pipeline was tried to its end without a positive test, diag
\* is the diagnostic the failure branch logs, expects lists the expected-type lists of
\* the call and of each whitespace retry it made, fired the recognizers whose
\* getToken was invoked.
Result(e, outcome, token, error) ==
    [e |-> e, outcome |-> outcome, token |-> token, nextToken |-> <<>>, error |-> error,
     noMatch |-> FALSE, atEOF |-> FALSE, diag |-> <<>>, expects |-> <<>>, fired |-> <<>>]
Throw(e, error) == Result(e, "throw", 0, error)

\* The end of nextToken, reached when no recognizer of the pipeline matched.
noMatchFound(e) ==
    IF isEOF(e)
    THEN [(IF "loader" \in globals THEN Result(e, "undefined", 0, "")
                                   ELSE Throw(e, "ReferenceError"))
          EXCEPT !.noMatch = TRUE, !.atEOF = TRUE]
    ELSE IF e.allTokens = <<>>
    THEN [Throw(e, "TypeError") EXCEPT !.noMatch = TRUE]
    ELSE LET lastToken == e.allTokens[Len(e.allTokens)]
             pos == IF lastToken.end # <<>> THEN lastToken.end[1] ELSE lastToken.start
             diag == [lastTokenName |-> TokenTypeKeys[lastToken.type + 1],
                      position |-> pos,
                      snippet |-> Slice(e.source, pos.char, pos.char + 5)]
         IN [(IF "loader" \in globals THEN Result(e, "false", 0, "")
                                      ELSE Throw(e, "ReferenceError"))
             EXCEPT !.noMatch = TRUE, !.diag = <<diag>>]

RECURSIVE nextToken(_, _)
RECURSIVE tryGenerators(_, _, _, _)
RECURSIVE getToken(_, _, _)

\* What getToken hands back: [e, threw, token, leaveOpen], token <<>> when the
\* result carries none.
Made(e, leaveOpen) ==
    [e |-> e, threw |-> "", token |-> <<LastIndex(e)>>, leaveOpen |-> leaveOpen]
Failed(e, error) == [e |-> e, threw |-> error, token |-> <<>>, leaveOpen |-> FALSE]

\* GlobalGenerator.getToken: the root token, the global frame, the self-removal.
\* The root recognizer's result had it not unregistered itself.
KeepsItself(pushed, p) == Made(pushed, TRUE)
removeItself(pushed, p) == [Made(pushed, TRUE) EXCEPT !.e = removeProvider(pushed, p).e]
globalGetToken(e, p) ==
    removeItself(pushContext(startToken(e, TokenType.Global, <<(<<>>)>>, <<>>), "global", <<>>), p)

\* ClassGenerator.trySuperClass: eatWhitespace, then ast.tryRead, which the engine
\* does not define: the call always ends in a TypeError.
trySuperClass(ws) == IF ws.threw # "" THEN Failed(ws.e, ws.threw) ELSE Failed(ws.e, "TypeError")

\* ClassGenerator.tryClassName, after its eatWhitespace: the identifier read by
\* nextToken(TokenType.Identifier) names the class token t. Destructuring an
\* undefined result is a TypeError; a false result destructures to no token.
classNamed(t, id) ==
    IF id.outcome = "throw" THEN Failed(id.e, id.error)
    ELSE IF id.outcome = "undefined" THEN Failed(id.e, "TypeError")
    ELSE IF id.outcome = "token"
    THEN trySuperClass(eatWhitespace(
            [id.e EXCEPT !.allTokens[t].className = id.e.allTokens[id.token].name]))
    ELSE trySuperClass(eatWhitespace(id.e))
tryClassName(t, ws) ==
    IF ws.threw # "" THEN Failed(ws.e, ws.threw)
    ELSE classNamed(t, nextToken(ws.e, <<TokenType.Identifier>>))

\* ClassGenerator.getToken: the class token is started, its frame pushed and its
\* position advanced here, before the name and the superclass are read.
classStarted(started) ==
    tryClassName(LastIndex(started),
                 eatWhitespace(updatePosition(
                     pushContext(started, "class", <<LastIndex(started)>>),
                     LastIndex(started), FALSE)))

\* generator.getToken(ast, context, testResult) for instance p and matched text raw.
getToken(e, p, raw) ==
    CASE p.kind = "Global" -> globalGetToken(e, p)
      [] p.kind = "Whitespace" -> Made(startToken(e, TokenType.Whitespace, <<raw>>, <<>>), FALSE)
      [] p.kind = "Identifier" ->
           Made(startToken(e, IF ToLowerCase(raw) \in ReservedWord
                              THEN TokenType.ReservedWord ELSE TokenType.Identifier,
                           <<raw>>, <<raw>>), FALSE)
      [] p.kind = "Number" -> Made(startToken(e, TokenType.Number, <<raw>>, <<>>), FALSE)
      [] p.kind = "Assignment" -> Made(startToken(e, TokenType.Assignment, <<raw>>, <<>>), FALSE)
      [] p.kind = "Equality" -> Made(startToken(e, TokenType.Equality, <<raw>>, <<>>), FALSE)
      [] p.kind = "CommentBlock" ->
           Made(startToken(e, TokenType.CommentBlock,
                           <<Slice(e.remainder, 0, IndexOf(e.remainder, <<"*", "/">>) + 2)>>,
                           <<>>), FALSE)
      [] p.kind = "CommentInline" ->
           Made(startToken(e, TokenType.CommentInline,
                           <<Slice(e.remainder, 0, IndexOf(e.remainder, <<"\n">>))>>,
                           <<>>), FALSE)
      [] p.kind = "Function" -> [e |-> e, threw |-> "", token |-> <<>>, leaveOpen |-> FALSE]
      [] p.kind = "Class" -> classStarted(startToken(e, TokenType.Class, <<raw>>, <<>>))
      [] OTHER ->
           \* GeneratorBase.getToken, for the recognizers that only set a token type
           IF p.tokenType # <<>> /\ p.tokenType[1] # 0
           THEN Made(startToken(e, p.tokenType[1], <<raw>>, <<>>), FALSE)
           ELSE Failed(e, "Error")

\* A retry that forgets the expected types of the call.
RetryWithoutExpected(e, expect) == nextToken(e, <<>>)
\* The retry after a whitespace token: nextToken again with the same expected types.
retryAfterWhitespace(e, expect) == nextToken(e, expect)

\* The test `token.type === TokenType.Whitespace` of nextToken.
isWhitespaceToken(type) == type = TokenType.Whitespace

\* nextToken once endToken has run on the token the recognizer p built: a whitespace
\* token is dropped and the read retried, any other token is returned.
afterEndToken(p, expect, token, ended) ==
    IF ended.threw # "" THEN [Throw(ended.e, ended.threw) EXCEPT !.fired = <<p.key>>]
    ELSE IF isWhitespaceToken(ended.e.allTokens[token[1]].type)
    THEN [retryAfterWhitespace(ended.e, expect) EXCEPT !.fired = <<p.key>> \o @]
    ELSE [Result(ended.e, "token", token[1], "") EXCEPT !.fired = <<p.key>>]

\* nextToken once the recognizer p has built its result.
afterGetToken(p, expect, got) ==
    IF got.threw # "" THEN [Throw(got.e, got.threw) EXCEPT !.fired = <<p.key>>]
    ELSE afterEndToken(p, expect, got.token, endToken(got.e, got.token, got.leaveOpen))

\* nextToken once the k-th recognizer of the pipeline has been tested.
afterTest(e, pipeline, k, expect, p, tested) ==
    IF tested.threw # "" THEN Throw(e, tested.threw)
    ELSE IF ~tested.hit THEN tryGenerators(e, pipeline, k + 1, expect)
    ELSE afterGetToken(p, expect, getToken(e, p, tested.raw))

\* The loop run from the far end of the pipeline: the k-th recognizer tried is the
\* k-th from the end.
tryGeneratorsLastFirst(e, pipeline, k, expect) ==
    IF k > Len(pipeline) THEN noMatchFound(e)
    ELSE IF ~IsProvider(pipeline[Len(pipeline) + 1 - k]) THEN Throw(e, "TypeError")
    ELSE afterTest(e, pipeline, k, expect, Instance(pipeline[Len(pipeline) + 1 - k]),
                   test(e, Instance(pipeline[Len(pipeline) + 1 - k])))

\* The loop of nextToken over the pipeline, from its k-th entry on.
tryGenerators(e, pipeline, k, expect) ==
    IF k > Len(pipeline) THEN noMatchFound(e)
    ELSE IF ~IsProvider(pipeline[k]) THEN Throw(e, "TypeError")
    ELSE afterTest(e, pipeline, k, expect, Instance(pipeline[k]), test(e, Instance(pipeline[k])))

\* nextToken with its pipeline prepared: an empty pipeline is a fatal error.
runPipeline(prepared, expect) ==
    IF Len(prepared.pipeline) = 0 THEN Throw(prepared.e, "Error")
    ELSE tryGenerators(prepared.e, prepared.pipeline, 1, expect)

\* nextToken(...expect)
nextToken(e, expect) ==
    [runPipeline(preparePipeline(e, expect), expect) EXCEPT !.expects = <<expect>> \o @]

\* What tokenize hands back: the engine afterwards, outcome "returned" (with the
\* root token as an option) or "throw", and ended: how the last nextToken call of
\* the loop ended.
Tokenized(e, outcome, root, error, ended) ==
    [e |-> e, outcome |-> outcome, root |-> root, error |-> error, ended |-> ended]

RECURSIVE tokenizeLoop(_, _, _)
\* One turn of the while loop of tokenize on the result of nextToken: a token is
\* pushed onto the root's children, any falsy result ends the loop and the root is
\* returned.
tokenizeStep(root, result) ==
    IF result.outcome = "throw" THEN Tokenized(result.e, "throw", root, result.error, "throw")
    ELSE IF result.outcome # "token"
    THEN Tokenized(result.e, "returned", root, "", result.outcome)
    ELSE IF root = <<>> \/ result.e.allTokens[root[1]].children = <<>>
    THEN Tokenized(result.e, "throw", root, "TypeError", "token")
    ELSE tokenizeLoop([result.e EXCEPT !.allTokens[root[1]].children =
                                          <<Append(@[1], result.token)>>],
                      root, result.nextToken)
tokenizeLoop(e, root, expect) == tokenizeStep(root, nextToken(e, expect))

\* tokenize() once the first nextToken() has run: the root token is destructured out
\* of its result, a TypeError when that is undefined and no token when it is false.
tokenizeFirst(first) ==
    IF first.outcome = "throw" THEN Tokenized(first.e, "throw", <<>>, first.error, "throw")
    ELSE IF first.outcome = "undefined"
    THEN Tokenized(first.e, "throw", <<>>, "TypeError", "undefined")
    ELSE tokenizeLoop(first.e, IF first.outcome = "token" THEN <<first.token>> ELSE <<>>, <<>>)

\* tokenize()
tokenize(e) == tokenizeFirst(nextToken(e, <<>>))

\* ------------------------------------------------------------------ actions
NoEngine == [variant |-> "none"]
Live(i) == engines[i].variant # "none"

\* The record kept of the last call on an engine.
NoCall ==
    [op |-> "none", expect |-> <<>>, arg |-> <<>>, outcome |-> "", error |-> "",
     token |-> 0, root |-> <<>>, ended |-> "", noMatch |-> FALSE, atEOF |-> FALSE,
     diag |-> <<>>, expects |-> <<>>, fired |-> <<>>, result |-> FALSE, before |-> <<>>,
     leaveOpen |-> FALSE]

\* The three indices of a loader or an engine.
Indices(x) ==
    [tokenProviders |-> x.tokenProviders,
     tokenProvidersById |-> x.tokenProvidersById,
     tokenProvidersSorted |-> x.tokenProvidersSorted]

\* The engine as its methods see it. An engine's indices are objects of its own,
\* made by the constructor's spreads; indices "loader" would be the loader's objects.
View(i) ==
    IF engines[i].indices = "loader"
    THEN [engines[i] EXCEPT !.tokenProviders = loader.tokenProviders,
                            !.tokenProvidersById = loader.tokenProvidersById,
                            !.tokenProvidersSorted = loader.tokenProvidersSorted]
    ELSE engines[i]

\* The state after a call on engine i left it as e and is recorded as call.
Commit(i, e, call) ==
    /\ engines' = [engines EXCEPT ![i] = e]
    /\ loader' = IF engines[i].indices = "loader"
                 THEN [loader EXCEPT !.tokenProviders = e.tokenProviders,
                                     !.tokenProvidersById = e.tokenProvidersById,
                                     !.tokenProvidersSorted = e.tokenProvidersSorted]
                 ELSE loader
    /\ last' = [last EXCEPT ![i] = call]
    /\ calls' = [calls EXCEPT ![i] = @ + 1]
    /\ UNCHANGED <<globals, files>>

CommitNextToken(i, expect, r) ==
    Commit(i, r.e, [NoCall EXCEPT !.op = "nextToken", !.expect = expect,
                        !.outcome = r.outcome, !.error = r.error, !.token = r.token,
                        !.noMatch = r.noMatch, !.atEOF = r.atEOF, !.diag = r.diag,
                        !.expects = r.expects, !.fired = r.fired])
CommitTokenize(i, r) ==
    Commit(i, r.e, [NoCall EXCEPT !.op = "tokenize", !.outcome = r.outcome,
                        !.error = r.error, !.root = r.root, !.ended = r.ended])
CommitRemoveProvider(i, key, r) ==
    Commit(i, r.e, [NoCall EXCEPT !.op = "removeProvider", !.arg = key,
                        !.result = r.result, !.before = <<Indices(View(i))>>])
CommitPopContext(i, r) ==
    Commit(i, r.e, [NoCall EXCEPT !.op = "popContext",
                        !.outcome = IF r.threw = "" THEN "returned" ELSE "throw",
                        !.error = r.threw])

CommitStartToken(i, e) ==
    Commit(i, e, [NoCall EXCEPT !.op = "startToken", !.outcome = "returned",
                      !.token = LastIndex(e)])
\* The record of an endToken or updatePosition call on token t that left [e, threw].
CommitTokenCall(i, op, t, leaveOpen, r) ==
    Commit(i, r.e, [NoCall EXCEPT !.op = op, !.token = t, !.leaveOpen = leaveOpen,
                        !.outcome = IF r.threw = "" THEN "returned" ELSE "throw",
                        !.error = r.threw])

\* The loader before initialize: only its tokenProviders entries are set.
Constructed(entries) ==
    [state |-> "constructed", entries |-> entries,
     tokenProviders |-> {entries[k][1] : k \in DOMAIN entries},
     tokenProvidersById |-> <<>>, tokenProvidersSorted |-> <<>>, instances |-> <<>>]

Initialized(done) ==
    IF done.threw THEN [loader EXCEPT !.state = "failed"]
    ELSE [loader EXCEPT !.state = "initialized",
                        !.tokenProvidersById = done.tokenProvidersById,
                        !.tokenProvidersSorted = done.tokenProvidersSorted,
                        !.instances = done.instances]

\* loader.initialize()
Initialize ==
    /\ loader.state = "constructed"
    /\ loader' = Initialized(initialize(loader.entries))
    /\ UNCHANGED <<globals, files, engines, last, calls>>

\* An engine built without the spreads: its indices are the loader's own objects.
SharesLoaderIndices(variant, source) ==
    [(IF variant = "js" THEN AstBuilderJS(loader, source) ELSE AstBuilder(loader, source))
     EXCEPT !.indices = "loader"]
\* The engine new AstBuilder / new AstBuilderJS gives for a source.
construct(variant, source) ==
    IF variant = "js" THEN AstBuilderJS(loader, source) ELSE AstBuilder(loader, source)

\* loader.createTreeBuilder({ filename, source }) with either engine class
CreateTreeBuilder(i, variant, source) ==
    /\ loader.state = "initialized"
    /\ ~Live(i)
    /\ engines' = [engines EXCEPT ![i] = construct(variant, source)]
    /\ UNCHANGED <<loader, globals, files, last, calls>>

\* engine.nextToken(...expect)
NextToken(i, expect) ==
    /\ Live(i) /\ calls[i] < MaxCalls
    /\ CommitNextToken(i, expect, nextToken(View(i), expect))

\* engine.tokenize(), called as the loader's require calls it: on an engine just built.
Tokenize(i) ==
    /\ Live(i) /\ calls[i] = 0
    /\ CommitTokenize(i, tokenize(View(i)))

\* engine.removeProvider(provider) for the recognizer registered as key
RemoveProvider(i, key) ==
    /\ Live(i) /\ calls[i] < MaxCalls
    /\ CommitRemoveProvider(i, key, removeProvider(View(i), Instance(key)))

\* engine.popContext()
PopContext(i) ==
    /\ Live(i) /\ calls[i] < MaxCalls
    /\ CommitPopContext(i, popContext(View(i)))

\* engine.startToken(partial) as a recognizer calls it, with raw text or without;
\* a partial without a type gives a token of type Unknown.
StartToken(i, raw) ==
    /\ Live(i) /\ calls[i] < MaxCalls
    /\ CommitStartToken(i, startToken(View(i), TokenType.Unknown, raw, <<>>))

\* engine.endToken(token, leaveOpen) on a token the engine has started
EndToken(i, t, leaveOpen) ==
    /\ Live(i) /\ calls[i] < MaxCalls
    /\ t \in DOMAIN engines[i].allTokens
    /\ CommitTokenCall(i, "endToken", t, leaveOpen, endToken(View(i), <<t>>, leaveOpen))

\* engine.updatePosition(token, leaveOpen) on a token the engine has started
UpdatePosition(i, t, leaveOpen) ==
    /\ Live(i) /\ calls[i] < MaxCalls
    /\ t \in DOMAIN engines[i].allTokens
    /\ CommitTokenCall(i, "updatePosition", t, leaveOpen,
                       directUpdatePosition(View(i), t, leaveOpen))

\* ------------------------------------------------------------ specifications
\* The characters of the source texts.
Alphabet == {" ", "x", "=", "{", "#"}
RECURSIVE Texts(_)
Texts(n) ==
    IF n = 0 THEN {<<>>}
    ELSE Texts(n - 1) \cup {Append(t, c) : t \in {u \in Texts(n - 1) : Len(u) = n - 1}, c \in Alphabet}

\* The expected-type lists nextToken is called with.
Expectations ==
    {<<>>, <<TokenType.Whitespace, TokenType.Identifier>>, <<TokenType.Global>>}

\* The recognizers removeProvider is called with from outside the engine.
Removable == {AstGlobal, AstIdentifier}

\* A host realm that may bind any of the free identifiers names, a loader
\* constructed with the tokenProviders entries, source texts, and no engine yet.
InitHost(ids, texts, names, entries) ==
    /\ loader = Constructed(entries)
    /\ globals \in SUBSET names
    /\ files = texts
    /\ engines = [i \in ids |-> NoEngine]
    /\ last = [i \in ids |-> NoCall]
    /\ calls = [i \in ids |-> 0]

InitWith(ids, texts) == InitHost(ids, texts, {"loader"}, DefaultProviders)

Init == InitWith({1}, Texts(MaxLen))

Next ==
    \/ Initialize
    \/ \E i \in DOMAIN engines, variant \in {"base", "js"}, source \in files :
          CreateTreeBuilder(i, variant, source)
    \/ \E i \in DOMAIN engines, expect \in Expectations : NextToken(i, expect)
    \/ \E i \in DOMAIN engines : Tokenize(i)
    \/ \E i \in DOMAIN engines, key \in Removable : RemoveProvider(i, key)
    \/ \E i \in DOMAIN engines : PopContext(i)

Spec == Init /\ [][Next]_vars

\* Two engines created from the same loader over one source and stepped in any
\* interleaving.
SiblingSources == {<<" ", "x">>}
InitPair == InitWith({1, 2}, SiblingSources)

NextPair ==
    \/ Initialize
    \/ \E i \in DOMAIN engines, variant \in {"base", "js"}, source \in files :
          CreateTreeBuilder(i, variant, source)
    \/ \E i \in DOMAIN engines, expect \in {<<>>, <<TokenType.Global>>} : NextToken(i, expect)
    \/ \E i \in DOMAIN engines : RemoveProvider(i, AstGlobal)
    \/ \E i \in DOMAIN engines : PopContext(i)

SpecPair == InitPair /\ [][NextPair]_vars

\* Sources with line breaks, read token by token or in one run.
MaxLineLen == 3
LineAlphabet == {"\n", " ", "x"}
RECURSIVE LineTexts(_)
LineTexts(n) ==
    IF n = 0 THEN {<<>>}
    ELSE LineTexts(n - 1)
         \cup {Append(t, c) : t \in {u \in LineTexts(n - 1) : Len(u) = n - 1}, c \in LineAlphabet}
InitLines == InitHost({1}, LineTexts(MaxLineLen), {"loader"}, DefaultProviders)
NextLines ==
    \/ Initialize
    \/ \E i \in DOMAIN engines, variant \in {"base", "js"}, source \in files :
          CreateTreeBuilder(i, variant, source)
    \/ \E i \in DOMAIN engines : NextToken(i, <<>>)
    \/ \E i \in DOMAIN engines : Tokenize(i)
SpecLines == InitLines /\ [][NextLines]_vars

\* A realm that may bind `filename` as well as `loader`, and engines whose context
\* stack is popped between reads.
HostSources == Texts(1)
InitHosted == InitHost({1}, HostSources, {"loader", "filename"}, DefaultProviders)
NextHosted ==
    \/ Initialize
    \/ \E i \in DOMAIN engines, variant \in {"base", "js"}, source \in files :
          CreateTreeBuilder(i, variant, source)
    \/ \E i \in DOMAIN engines : NextToken(i, <<>>)
    \/ \E i \in DOMAIN engines : PopContext(i)
SpecHosted == InitHosted /\ [][NextHosted]_vars

\* A loader configured with no tokenProviders at all.
NoProviders == <<>>
InitEmpty == InitHost({1}, Texts(MaxLen), {"loader"}, NoProviders)
NextEmpty ==
    \/ Initialize
    \/ \E i \in DOMAIN engines, variant \in {"base", "js"}, source \in files :
          CreateTreeBuilder(i, variant, source)
    \/ \E i \in DOMAIN engines, expect \in {<<>>, <<TokenType.Whitespace>>} : NextToken(i, expect)
    \/ \E i \in DOMAIN engines : Tokenize(i)
SpecEmpty == InitEmpty /\ [][NextEmpty]_vars

\* Engines whose tokens are started, finished and advanced call by call, as the
\* recognizers do through the engine's public methods.
MaxTokens == 3
FunctionText == <<"f", "u", "n", "c", "t", "i", "o", "n">>
TokenSources == {<<>>, <<"x">>, <<" ", "x">>, FunctionText}
InitTokens == InitHost({1}, TokenSources, {"loader"}, DefaultProviders)
NextTokens ==
    \/ Initialize
    \/ \E i \in DOMAIN engines, variant \in {"base", "js"}, source \in files :
          CreateTreeBuilder(i, variant, source)
    \/ \E i \in DOMAIN engines, expect \in {<<>>, <<TokenType.Function>>} : NextToken(i, expect)
    \/ \E i \in DOMAIN engines, raw \in {<<>>, <<(<<"x">>)>>} : StartToken(i, raw)
    \/ \E i \in DOMAIN engines, t \in 1..MaxTokens, leaveOpen \in BOOLEAN :
          EndToken(i, t, leaveOpen)
    \/ \E i \in DOMAIN engines, t \in 1..MaxTokens, leaveOpen \in BOOLEAN :
          UpdatePosition(i, t, leaveOpen)
SpecTokens == InitTokens /\ [][NextTokens]_vars

\* The sources of the scenarios: an assignment statement, a class declaration, an
\* unterminated block comment, number literals, operators, and inline comments on a
\* line that ends and on the last line.
AssignmentStatement == <<"x", " ", "=", " ", "5">>
ClassDeclaration ==
    <<"c", "l", "a", "s", "s", " ", "F", "o", "o", " ", "e", "x", "t", "e", "n", "d", "s", " ", "B", "a", "r", " ", "{", "}">>
UnterminatedComment ==
    <<"/", "*", " ", "n", "e", "v", "e", "r", " ", "c", "l", "o", "s", "e", "s">>
DecimalLiteral == <<"1", "2">>
HexLiteral == <<"0", "x", "1", "F">>
EqualityText == <<"=", "=">>
NotEqualText == <<"!", "=">>
PowerAssignText == <<"*", "*", "=">>
CommentThenLine == <<"/", "/", " ", "c", "\n", "x">>
CommentAtEnd == <<"/", "/", " ", "c">>
NumberSources == {DecimalLiteral, HexLiteral}
OperatorSources == {EqualityText, NotEqualText, PowerAssignText}
CommentSources == {CommentThenLine, CommentAtEnd}
ScenarioSources ==
    {AssignmentStatement, ClassDeclaration, UnterminatedComment}
       \cup NumberSources \cup OperatorSources \cup CommentSources
InitScenarios == InitHost({1}, ScenarioSources, {"loader"}, DefaultProviders)
NextScenarios ==
    \/ Initialize
    \/ \E i \in DOMAIN engines, variant \in {"base", "js"}, source \in files :
          CreateTreeBuilder(i, variant, source)
    \/ \E i \in DOMAIN engines, expect \in {<<>>, <<TokenType.Class>>} : NextToken(i, expect)
    \/ \E i \in DOMAIN engines : Tokenize(i)
SpecScenarios == InitScenarios /\ [][NextScenarios]_vars

\* A loader whose tokenProviders are two settings objects, each with a pattern made of
\* an anchored character class and a quantifier, and the identifier recognizer class.
\* The first object is registered as A, the second as B or under the name of a
\* token type; engines are built from the loader and recognizers removed from them.
CharacterClasses ==
    {<<"[", "x", "]">>, <<"[", "0", "-", "9", "]">>}
Quantifiers == {<<>>, <<"+">>, <<"*">>}
Pattern(class, quantifier) == RegExpCond(<<"/", "^">> \o class \o quantifier \o <<"/">>)
PatternProviders ==
    {<< <<<<"A">>, "object", Pattern(c[1], q[1])>>, <<second, "object", Pattern(c[2], q[2])>>,
        <<AstIdentifier, "Identifier">> >> :
        c \in CharacterClasses \X CharacterClasses, q \in Quantifiers \X Quantifiers,
        second \in {<<"B">>, AstNumber}}
InitPatterns ==
    \E entries \in PatternProviders : InitHost({1}, {<<>>}, {"loader"}, entries)
NextPatterns ==
    \/ Initialize
    \/ \E i \in DOMAIN engines, variant \in {"base", "js"}, source \in files :
          CreateTreeBuilder(i, variant, source)
    \/ \E i \in DOMAIN engines, key \in DOMAIN loader.instances : RemoveProvider(i, key)
SpecPatterns == InitPatterns /\ [][NextPatterns]_vars

\* ---------------------------------------------------------------- properties
\* The tokens of engine e with a given type, and whether token t of e is a leaf
\* (children undefined or empty).
TokensOfType(e, type) == {t \in DOMAIN e.allTokens : e.allTokens[t].type = type}
IsLeaf(e, t) == e.allTokens[t].children = <<>> \/ e.allTokens[t].children[1] = <<>>

\* The raw text of the leaf tokens of e from token t on, whitespace tokens included,
\* each taken once, in the order of their creation (which is their source order).
RECURSIVE LeafText(_, _)
LeafText(e, t) ==
    IF t > Len(e.allTokens) THEN <<>>
    ELSE (IF IsLeaf(e, t) /\ e.allTokens[t].raw # <<>> THEN e.allTokens[t].raw[1] ELSE <<>>)
         \o LeafText(e, t + 1)

\* A source made only of text the registered recognizers and whitespace match.
Recognized(source) == \A k \in DOMAIN source : source[k] \in {" ", "x", "=", "{"}

\* tokenize() was the only call made on engine i and it returned the root.
TokenizeReturned(i) ==
    Live(i) /\ calls[i] = 1 /\ last[i].op = "tokenize" /\ last[i].outcome = "returned"

\* The last call on engine i was a nextToken whose pipeline ran out with no match.
NoMatch(i) == Live(i) /\ last[i].op = "nextToken" /\ last[i].noMatch

\* C1: lossless reconstruction. After tokenize() completes on a source made only of
\* recognized text, the raw text of the leaf tokens and of the discarded whitespace,
\* concatenated in source order, is the source.
C1_LosslessReconstruction ==
    \A i \in DOMAIN engines :
        (TokenizeReturned(i) /\ last[i].ended = "undefined" /\ Recognized(engines[i].source))
            => LeafText(engines[i], 1) = engines[i].source

\* C2: tokenize() returns the root only when the input was consumed to the end of
\* the stream; a failure reported by nextToken in mid-file is never returned as a tree.
C2_TokenizePropagatesFailure ==
    \A i \in DOMAIN engines :
        (Live(i) /\ last[i].op = "tokenize" /\ last[i].outcome = "returned")
            => (last[i].ended = "undefined" /\ isEOF(engines[i]))

\* C3: when no recognizer of the pipeline matches and input remains, nextToken
\* returns the failure value and does not throw, whatever tokens exist, and its
\* diagnostic names the last token, its end position when it is closed and its
\* start position otherwise, and a snippet of the source from there.
C3_NoMatchReturnsFailure ==
    \A i \in DOMAIN engines :
        (NoMatch(i) /\ ~last[i].atEOF)
            => /\ last[i].outcome = "false"
               /\ last[i].diag # <<>>
               /\ LET lastToken == engines[i].allTokens[Len(engines[i].allTokens)]
                      d == last[i].diag[1]
                  IN /\ d.lastTokenName = TokenTypeKeys[lastToken.type + 1]
                     /\ d.position = IF lastToken.end # <<>> THEN lastToken.end[1]
                                     ELSE lastToken.start
                     /\ d.snippet = Slice(engines[i].source, d.position.char, d.position.char + 5)

\* C4: when no recognizer of the pipeline matches and the byte offset equals the
\* source length, nextToken returns the end-of-stream sentinel as a normal result.
C4_NoMatchAtEndReturnsSentinel ==
    \A i \in DOMAIN engines :
        (NoMatch(i) /\ engines[i].position.char = Len(engines[i].source))
            => last[i].outcome = "undefined"

\* C5: nextToken never returns a Whitespace token, and every retry it makes after
\* consuming one is made with exactly the expected-type list of the call.
C5_WhitespaceNeverReturned ==
    \A i \in DOMAIN engines :
        (Live(i) /\ last[i].op = "nextToken")
            => /\ last[i].outcome = "token"
                    => engines[i].allTokens[last[i].token].type # TokenType.Whitespace
               /\ \A k \in DOMAIN last[i].expects : last[i].expects[k] = last[i].expect

\* A call with a non-empty expected-type list that consumed whitespace, retried and
\* returned a token.
C5_Witness ==
    \E i \in DOMAIN engines :
        /\ Live(i) /\ last[i].op = "nextToken" /\ last[i].outcome = "token"
        /\ last[i].expect # <<>>
        /\ Len(last[i].expects) >= 2
        /\ AstWhitespace \in Range(last[i].fired)

\* C6: after tokenize(), no token has a Whitespace token among its children, and
\* every whitespace token advanced the position by the length of its raw text.
C6_WhitespaceExcludedFromTree ==
    \A i \in DOMAIN engines :
        TokenizeReturned(i)
            => LET e == engines[i]
               IN /\ \A t \in DOMAIN e.allTokens :
                        e.allTokens[t].children # <<>>
                            => \A c \in Range(e.allTokens[t].children[1]) :
                                   e.allTokens[c].type # TokenType.Whitespace
                  /\ \A w \in TokensOfType(e, TokenType.Whitespace) :
                        /\ e.allTokens[w].end # <<>>
                        /\ e.allTokens[w].end[1].char =
                               e.allTokens[w].start.char + Len(e.allTokens[w].raw[1])

\* C7: the root recognizer produces a token at most once per engine: every engine
\* holds at most one Global token among all the tokens it ever created.
C7_GlobalFiresAtMostOnce ==
    \A i \in DOMAIN engines :
        Live(i) => Cardinality(TokensOfType(engines[i], TokenType.Global)) <= 1

\* An engine whose root recognizer has fired, whose context has no scope again, and
\* on which nextToken then ran to a result without the root recognizer.
C7_Witness ==
    \E i \in DOMAIN engines :
        /\ Live(i) /\ last[i].op = "nextToken" /\ last[i].outcome \in {"token", "false", "undefined"}
        /\ engines[i].context.tag = "object" /\ engines[i].context.scope = ""
        /\ Cardinality(TokensOfType(engines[i], TokenType.Global)) = 1
        /\ AstGlobal \notin Range(last[i].fired)

\* Whether the recognizer registered as key is in none of the three indices x.
InNoIndex(x, key) ==
    /\ key \notin x.tokenProviders
    /\ \A id \in DOMAIN x.tokenProvidersById : x.tokenProvidersById[id] # key
    /\ key \notin Range(x.tokenProvidersSorted)

\* C8: removeProvider is idempotent. Called on a registered recognizer it removes it
\* from the by-name, by-id and sorted indices and returns true; called on one already
\* removed it returns false and leaves the three indices as they were.
C8_RemoveProviderIdempotent ==
    \A i \in DOMAIN engines :
        (Live(i) /\ last[i].op = "removeProvider")
            => LET before == last[i].before[1]
                   after == Indices(View(i))
               IN IF last[i].arg \in before.tokenProviders
                  THEN last[i].result /\ InNoIndex(after, last[i].arg)
                  ELSE ~last[i].result /\ after = before

\* C9: registry removal is private to the engine. A step of one engine leaves the
\* loader's three indices and every other engine's indices unchanged, and the first
\* nextToken() of every engine has the root recognizer fire, whatever its siblings did.
C9_RemovalIsPrivate ==
    /\ [][\A i \in DOMAIN engines :
            (Live(i) /\ engines[i]' # engines[i])
                => /\ Indices(loader)' = Indices(loader)
                   /\ \A j \in DOMAIN engines \ {i} :
                         Live(j) => Indices(View(j))' = Indices(View(j))]_vars
    /\ [](\A i \in DOMAIN engines :
            (Live(i) /\ calls[i] = 1 /\ last[i].op = "nextToken")
                => (last[i].fired # <<>> /\ last[i].fired[1] = AstGlobal))

\* Both engines have had the root recognizer fire and remove itself, and the loader
\* still holds it in its three indices.
C9_Witness ==
    /\ \A i \in DOMAIN engines :
          /\ Live(i)
          /\ Cardinality(TokensOfType(engines[i], TokenType.Global)) = 1
          /\ InNoIndex(Indices(View(i)), AstGlobal)
    /\ Cardinality(DOMAIN engines) = 2
    /\ AstGlobal \in loader.tokenProviders
    /\ AstGlobal \in Range(loader.tokenProvidersSorted)
    /\ loader.tokenProvidersById[TokenType.Global] = AstGlobal

\* Recognizer a sorts before b: heavier, or as heavy and earlier by name.
Before(a, b) ==
    \/ a.weight > b.weight
    \/ /\ a.weight = b.weight
       /\ a.name # <<>> /\ b.name # <<>>
       /\ localeCompare(a.name[1], b.name[1]) < 0
StrictlyBefore(a, b) == Before(a, b) /\ ~Before(b, a)
Unfiltered(i) == preparePipeline(View(i), <<>>).pipeline

\* C11 as stated: the whitespace recognizer has the lowest priority, every unfiltered
\* pipeline tries it after every other registered recognizer.
C11_WhitespaceTriedLast ==
    \A i \in DOMAIN engines :
        Live(i) => (Unfiltered(i) # <<>> /\ Unfiltered(i)[Len(Unfiltered(i))] = AstWhitespace)

\* C11 amended: the whitespace recognizer has the highest priority but for the root
\* recognizer: every unfiltered pipeline holds it once, only the root recognizer is
\* tried before it and every other registered recognizer after it.
C11_WhitespaceTriedFirst ==
    \A i \in DOMAIN engines :
        Live(i) => \E k \in DOMAIN Unfiltered(i) :
                      /\ Unfiltered(i)[k] = AstWhitespace
                      /\ \A j \in DOMAIN Unfiltered(i) :
                            /\ j < k => Unfiltered(i)[j] = AstGlobal
                            /\ j > k => Unfiltered(i)[j] \notin {AstGlobal, AstWhitespace}
                      /\ Len(Unfiltered(i)) > k

\* An unfiltered nextToken whose first recognizer to fire was the whitespace one and
\* that went on to return a token of another recognizer.
C11_Witness ==
    \E i \in DOMAIN engines :
        /\ Live(i) /\ last[i].op = "nextToken" /\ last[i].expect = <<>>
        /\ last[i].outcome = "token"
        /\ last[i].fired # <<>> /\ last[i].fired[1] = AstWhitespace
        /\ Unfiltered(i)[1] = AstWhitespace

\* The newlines of a raw text, and its characters after the last of them (all of
\* them when it has none).
Newlines(raw) == Cardinality({n \in DOMAIN raw : raw[n] = "\n"})
Trailing(raw) ==
    LET breaks == {0} \cup {n \in DOMAIN raw : raw[n] = "\n"}
    IN Len(raw) - (CHOOSE n \in breaks : \A o \in breaks : o <= n)
\* The tokens of engine i the position was advanced by and that were then closed.
Advanced(i) ==
    IF Live(i) THEN {t \in DOMAIN engines[i].allTokens : engines[i].allTokens[t].end # <<>>}
    ELSE {}

\* C12 as stated: advancing by a raw text with k newlines and m characters after the
\* last newline gives line = old line + k, column = m, offset = old offset + length.
C12_PositionRoundTrip ==
    \A i \in DOMAIN engines : \A t \in Advanced(i) :
        LET token == engines[i].allTokens[t]
        IN /\ token.end[1].line = token.start.line + Newlines(token.raw[1])
           /\ token.end[1].col = Trailing(token.raw[1])
           /\ token.end[1].char = token.start.char + Len(token.raw[1])

\* C12 amended: the column is m only when the raw text has a newline; with none the
\* column is the old column + m. Line and offset are as stated.
C12_PositionAdvance ==
    \A i \in DOMAIN engines : \A t \in Advanced(i) :
        LET token == engines[i].allTokens[t]
        IN /\ token.end[1].line = token.start.line + Newlines(token.raw[1])
           /\ token.end[1].col = IF Newlines(token.raw[1]) = 0
                                 THEN token.start.col + Trailing(token.raw[1])
                                 ELSE Trailing(token.raw[1])
           /\ token.end[1].char = token.start.char + Len(token.raw[1])

\* A token starting past column 0 whose raw text has a newline and characters after it.
C12_Witness ==
    \E i \in DOMAIN engines : \E t \in Advanced(i) :
        /\ engines[i].allTokens[t].start.col > 0
        /\ Newlines(engines[i].allTokens[t].raw[1]) > 0
        /\ Trailing(engines[i].allTokens[t].raw[1]) > 0

\* The tokens of engine i on its open-token stack.
Open(i) == IF Live(i) THEN Range(engines[i].openTokens) ELSE {}

\* C13: every accepted match advances the byte offset: no token the position was
\* advanced by (closed, or left open) has an empty raw text, and a nextToken that
\* returned a token left the offset past that token's start.
C13_ForwardProgress ==
    \A i \in DOMAIN engines :
        /\ \A t \in Advanced(i) \cup Open(i) : Len(engines[i].allTokens[t].raw[1]) > 0
        /\ (last[i].op = "nextToken" /\ last[i].outcome = "token")
              => engines[i].position.char > engines[i].allTokens[last[i].token].start.char

\* The token the last nextToken on engine i returned, or the root tokenize read.
Returned(i) ==
    IF last[i].op = "nextToken" /\ last[i].outcome = "token" THEN {last[i].token}
    ELSE IF last[i].op = "tokenize" THEN Range(last[i].root)
    ELSE {}
\* The tokens of engine i that were finalized: the position was advanced by them
\* (they have an end or they were given a children list), or a call returned them.
Finalized(i) ==
    IF Live(i)
    THEN {t \in DOMAIN engines[i].allTokens :
            \/ engines[i].allTokens[t].end # <<>>
            \/ engines[i].allTokens[t].children # <<>>
            \/ t \in Returned(i)}
    ELSE {}

\* C14: a token's end, once assigned, never changes; every finalized token with no
\* end has a children list and is on the open-token stack; every token with an end
\* has string raw text.
C14_TokenLifecycle ==
    /\ [](\A i \in DOMAIN engines : \A t \in Finalized(i) :
             /\ engines[i].allTokens[t].end = <<>>
                   => (engines[i].allTokens[t].children # <<>> /\ t \in Open(i))
             /\ engines[i].allTokens[t].end # <<>> => engines[i].allTokens[t].raw # <<>>)
    /\ [][\A i \in DOMAIN engines : \A t \in Advanced(i) :
             engines'[i].allTokens[t].end = engines[i].allTokens[t].end]_vars

\* An engine with an open token that has children and whose last call returned a
\* closed token.
C14_Witness ==
    \E i \in DOMAIN engines :
        /\ \E t \in Open(i) : /\ engines[i].allTokens[t].end = <<>>
                              /\ engines[i].allTokens[t].children \notin {<<>>, <<(<<>>)>>}
        /\ \E t \in Returned(i) : engines[i].allTokens[t].end # <<>>
        /\ Cardinality(Advanced(i)) > 1

\* The scopes of the frames on the context stack of engine i.
OpenScopes(i) == {engines[i].contextStack[k].scope : k \in DOMAIN engines[i].contextStack}

\* C15: closing a scope pops its open token: the root token is on the open-token
\* stack only while the global frame it opened is on the context stack, and it has
\* an end once that frame is gone.
C15_ClosingScopePopsOpenToken ==
    \A i \in DOMAIN engines :
        Live(i) => \A t \in DOMAIN engines[i].allTokens :
                      (engines[i].allTokens[t].type = TokenType.Global
                         /\ engines[i].allTokens[t].children # <<>>
                         /\ "global" \notin OpenScopes(i))
                      => (t \notin Open(i) /\ engines[i].allTokens[t].end # <<>>)

\* C16: the context stack of a JS engine, which starts with the synthetic root
\* frame, is never empty and its current context is always a frame.
C16_ContextStackNeverEmpty ==
    \A i \in DOMAIN engines :
        (Live(i) /\ engines[i].variant = "js")
           => /\ engines[i].contextStack # <<>>
              /\ engines[i].context.tag = "object"
              /\ engines[i].context = engines[i].contextStack[1]

\* C17: popContext on an empty stack fails with the parse error and no other fault,
\* and the failing call changes neither the loader's indices nor the engine.
C17_UnderflowIsParseError ==
    /\ [](\A i \in DOMAIN engines :
             (last[i].op = "popContext" /\ last[i].outcome = "throw")
                => last[i].error = "Error")
    /\ [][\A i \in DOMAIN engines :
             (calls'[i] # calls[i] /\ last'[i].op = "popContext" /\ last'[i].outcome = "throw")
                => (loader' = loader /\ engines'[i] = engines[i])]_vars

\* The recognizers engine i has registered for the types of expected, in that order.
RegisteredFor(i, expected) ==
    LET wanted == SelectSeq(expected, LAMBDA id : id \in DOMAIN View(i).tokenProvidersById)
    IN [k \in DOMAIN wanted |-> View(i).tokenProvidersById[wanted[k]]]

\* C18: preparePipeline gives, for a non-empty expected-type list, exactly the
\* recognizers registered for those types in the caller's order, and for an empty
\* list the full list sorted by weight descending.
C18_PreparePipelineExact ==
    \A i \in DOMAIN engines : \A expected \in Expectations :
        Live(i) =>
            LET pipeline == preparePipeline(View(i), expected).pipeline
            IN IF expected # <<>>
               THEN pipeline = RegisteredFor(i, expected)
               ELSE /\ pipeline = View(i).tokenProvidersSorted
                    /\ \A k, l \in DOMAIN pipeline :
                          k < l => Instance(pipeline[k]).weight >= Instance(pipeline[l]).weight

\* The expected-type lists a caller of the JS engine's preparePipeline passes.
ExpectedLists == Expectations \cup {<<TokenType.Identifier>>, <<TokenType.Whitespace>>}

\* C19: every pipeline the JS engine's preparePipeline returns holds the whitespace
\* recognizer.
C19_PipelineHasWhitespace ==
    \A i \in DOMAIN engines : \A expected \in ExpectedLists :
        (Live(i) /\ engines[i].variant = "js")
           => AstWhitespace \in Range(preparePipeline(View(i), expected).pipeline)

\* C20: with no recognizer registered, nextToken on either engine fails with the
\* empty-pipeline error and invokes no recognizer.
C20_EmptyPipelineIsFatal ==
    \A i \in DOMAIN engines :
        (Live(i) /\ loader.tokenProviders = {}
           /\ last[i].op = "nextToken" /\ last[i].expect = <<>>)
           => (last[i].outcome = "throw" /\ last[i].error = "Error" /\ last[i].fired = <<>>)

\* A call of op was made on engine i in this step.
Called(i, op) == calls'[i] = calls[i] + 1 /\ last'[i].op = op

\* C21: endToken on a token without raw text raises the fatal error and changes
\* nothing; so does the endToken nextToken makes when the function recognizer's
\* result holds no token at all, which fails on reading the raw text.
C21_EndTokenRequiresRaw ==
    [][\A i \in DOMAIN engines :
         /\ (Called(i, "endToken") /\ engines[i].allTokens[last'[i].token].raw = <<>>)
               => (last'[i].outcome = "throw" /\ last'[i].error = "Error"
                     /\ engines'[i] = engines[i])
         /\ (Called(i, "nextToken") /\ last'[i].fired = <<AstFunction>>)
               => (last'[i].outcome = "throw" /\ last'[i].error = "TypeError"
                     /\ engines'[i] = engines[i])]_vars

\* endToken was refused on a token without raw text while the root token was open.
C21_Witness ==
    \E i \in DOMAIN engines :
        /\ Live(i) /\ last[i].op = "endToken" /\ last[i].outcome = "throw"
        /\ last[i].error = "Error"
        /\ engines[i].allTokens[last[i].token].raw = <<>>
        /\ engines[i].allTokens[last[i].token].end = <<>>
        /\ engines[i].openTokens # <<>>

\* The children lists of the tokens of an engine.
Children(e) == [t \in DOMAIN e.allTokens |-> e.allTokens[t].children]

\* C22: endToken or updatePosition on a token that was already finalized, closed or
\* left open, raises nothing and leaves the position, the remaining-text view, the
\* open-token stack and every children list as they were.
C22_AdvanceRunsOnce ==
    [][\A i \in DOMAIN engines :
         ((Called(i, "endToken") \/ Called(i, "updatePosition"))
            /\ last'[i].token \in Advanced(i) \cup Open(i))
         => /\ last'[i].outcome = "returned"
            /\ engines'[i].position = engines[i].position
            /\ engines'[i].remainder = engines[i].remainder
            /\ engines'[i].openTokens = engines[i].openTokens
            /\ Children(engines'[i]) = Children(engines[i])]_vars

Surfaced(e) ==
    LET kept == SelectSeq(e.allTokens,
                          LAMBDA token : token.type \notin {TokenType.Global, TokenType.Whitespace})
    IN [k \in DOMAIN kept |-> [type |-> kept[k].type, raw |-> kept[k].raw]]
\* Engine i was built over source and tokenize has run on it.
Ran(i, source) == Live(i) /\ engines[i].source = source /\ last[i].op = "tokenize"

\* C24: tokenizing "x = 5" gives, after the root, Identifier x, Assignment = and
\* Number 5, and then the end of the stream.
C24_AssignmentScenario ==
    \A i \in DOMAIN engines :
        Ran(i, AssignmentStatement)
           => /\ Surfaced(engines[i]) = << [type |-> TokenType.Identifier, raw |-> <<(<<"x">>)>>],
                                           [type |-> TokenType.Assignment, raw |-> <<(<<"=">>)>>],
                                           [type |-> TokenType.Number, raw |-> <<(<<"5">>)>>] >>
              /\ isEOF(engines[i])

\* C25: tokenizing "class Foo extends Bar {}" gives a Class token for "class", named
\* Foo, left open on the open-token stack, with the two CurlyBrace tokens as its
\* children; no exception escapes.
C25_ClassScenario ==
    \A i \in DOMAIN engines :
        Ran(i, ClassDeclaration)
           => /\ last[i].outcome = "returned"
              /\ \E t \in Open(i) :
                    /\ engines[i].allTokens[t].type = TokenType.Class
                    /\ engines[i].allTokens[t].className = <<(<<"F", "o", "o">>)>>
                    /\ Len(engines[i].allTokens[t].children[1]) = 2
                    /\ \A k \in 1..2 :
                          engines[i].allTokens[engines[i].allTokens[t].children[1][k]].type
                             = TokenType.CurlyBrace

\* C26: reading the unterminated block comment reports a parse failure at the start
\* of the comment: no exception escapes, no CommentBlock token is built and the
\* position stays at the comment's first character.
C26_UnterminatedComment ==
    \A i \in DOMAIN engines :
        Ran(i, UnterminatedComment)
           => /\ last[i].outcome = "returned" /\ last[i].ended = "false"
              /\ TokensOfType(engines[i], TokenType.CommentBlock) = {}
              /\ engines[i].position.char = 0

\* C27: the number recognizer goes on to the later patterns when an earlier one
\* fails: a source that is one decimal or one hexadecimal literal is read as one
\* Number token holding the whole literal.
C27_NumberPatternsInOrder ==
    \A i \in DOMAIN engines : \A source \in NumberSources :
        Ran(i, source)
           => Surfaced(engines[i]) = << [type |-> TokenType.Number, raw |-> <<source>>] >>

\* The first token an engine surfaced.
FirstSurfaced(e) == Surfaced(e)[1]

\* C28: a source that is one multi-character operator is read as one token holding
\* the whole operator, of type Equality for an equality operator and Assignment for
\* an assignment operator.
C28_LongestOperatorFirst ==
    \A i \in DOMAIN engines : \A source \in OperatorSources :
        Ran(i, source)
           => /\ Surfaced(engines[i]) # <<>>
              /\ FirstSurfaced(engines[i]).raw = <<source>>
              /\ FirstSurfaced(engines[i]).type =
                    IF source \in Range(EqualityOperators) THEN TokenType.Equality
                    ELSE TokenType.Assignment

\* The text of a source from offset a up to its first newline at or after a, or to
\* its end when it has none.
RestOfLine(source, a) ==
    LET breaks == {n \in (a + 1)..Len(source) : source[n] = "\n"}
    IN IF breaks = {} THEN SliceFrom(source, a)
       ELSE Slice(source, a, (CHOOSE n \in breaks : \A o \in breaks : n <= o) - 1)

\* C29: an inline comment token holds the text from "//" to the end of its line,
\* the newline excluded, and to the end of input on a last line without a newline.
C29_InlineCommentToEndOfLine ==
    \A i \in DOMAIN engines :
        Live(i) => \A t \in TokensOfType(engines[i], TokenType.CommentInline) :
                      engines[i].allTokens[t].raw
                         = <<RestOfLine(engines[i].source, engines[i].allTokens[t].start.char)>>

\* The recognizers of the sorted list whose weight is the calculated one and whose
\* condition is a predicate, and those whose condition is a literal or a pattern.
WeighedPredicates ==
    {k \in DOMAIN loader.tokenProvidersSorted :
        LET cls == ProviderClass(Instance(loader.tokenProvidersSorted[k]).kind)
        IN cls.weight = <<>> /\ cls.cond.type = "function"}
LiteralsAndPatterns ==
    {k \in DOMAIN loader.tokenProvidersSorted :
        ProviderClass(Instance(loader.tokenProvidersSorted[k]).kind).cond.type
           \in {"string", "regex"}}

\* C30: a recognizer with a predicate condition gets the fixed minimal weight and
\* stands in the sorted list after every recognizer with a literal or pattern
\* condition.
C30_PredicateTriedLast ==
    loader.state = "initialized"
       => \A k \in WeighedPredicates :
             /\ Instance(loader.tokenProvidersSorted[k]).weight = calculateWeight(FunctionCond)
             /\ \A l \in LiteralsAndPatterns :
                   /\ l < k
                   /\ Instance(loader.tokenProvidersSorted[l]).weight
                         >= Instance(loader.tokenProvidersSorted[k]).weight

\* The pattern of the recognizer registered as key is class followed by quantifier.
HasPattern(key, class, quantifier) ==
    \E k \in DOMAIN loader.entries :
        /\ loader.entries[k][1] = key
        /\ loader.entries[k][2] = "object"
        /\ loader.entries[k][3] = Pattern(class, quantifier)
\* How specific a quantifier is: none, then one-or-more, then zero-or-more.
Specificity(quantifier) ==
    IF quantifier = <<>> THEN 3 ELSE IF quantifier = <<"+">> THEN 2 ELSE 1

\* C31: pattern weights follow specificity. When two registered patterns differ only
\* in the quantifier after the same character class, the more specific one (no
\* quantifier over one-or-more over zero-or-more) has the greater weight and comes
\* earlier in the sorted list.
C31_WeightFollowsSpecificity ==
    loader.state = "initialized" =>
        \A c \in CharacterClasses : \A q1, q2 \in Quantifiers :
        \A a, b \in loader.tokenProviders :
            (/\ HasPattern(a, c, q1) /\ HasPattern(b, c, q2)
             /\ Specificity(q1) > Specificity(q2))
            => /\ loader.instances[a].weight > loader.instances[b].weight
               /\ \E m, n \in DOMAIN loader.tokenProvidersSorted :
                     /\ m < n
                     /\ loader.tokenProvidersSorted[m] = a
                     /\ loader.tokenProvidersSorted[n] = b

\* A step that is a nextToken call in which some recognizer's getToken was invoked.
Dispatched(i) == Called(i, "nextToken") /\ last'[i].fired # <<>>
\* The k-th recognizer of a pipeline is the first one whose test is positive on e.
FirstPositive(e, pipeline, k) ==
    /\ IsProvider(pipeline[k])
    /\ test(e, Instance(pipeline[k])).hit
    /\ \A j \in 1..(k - 1) :
          /\ IsProvider(pipeline[j])
          /\ test(e, Instance(pipeline[j])).threw = ""
          /\ ~test(e, Instance(pipeline[j])).hit

\* C32: dispatch in nextToken. In every nextToken call that invokes a recognizer, the
\* recognizer invoked first is the first one of the call's pipeline whose test is
\* positive on the engine as the call found it, every recognizer before it in the
\* pipeline tests negative on that same engine, and no other recognizer is invoked
\* for the token: when the call returns a token, the recognizers invoked before the
\* one that built it are whitespace recognizers, whose tokens were dropped before
\* the read was retried.
C32_FirstPositiveTestBuilds ==
    [][\A i \in DOMAIN engines :
          Dispatched(i) =>
            /\ \E k \in DOMAIN preparePipeline(View(i), last'[i].expect).pipeline :
                  /\ preparePipeline(View(i), last'[i].expect).pipeline[k] = last'[i].fired[1]
                  /\ FirstPositive(preparePipeline(View(i), last'[i].expect).e,
                                   preparePipeline(View(i), last'[i].expect).pipeline, k)
            /\ last'[i].outcome = "token" =>
                  /\ \A m \in 1..(Len(last'[i].fired) - 1) : last'[i].fired[m] = AstWhitespace
                  /\ engines'[i].allTokens[last'[i].token].type # TokenType.Whitespace]_vars

\* A nextToken call has returned a token built by a recognizer that is not the first
\* of its pipeline, after a whitespace token was built and dropped.
C32_Witness ==
    \E i \in DOMAIN engines :
        /\ last[i].op = "nextToken" /\ last[i].outcome = "token"
        /\ Len(last[i].fired) = 2
        /\ last[i].fired[2] \notin {AstGlobal, AstWhitespace}

\* A step that calls endToken on a token of engine i that has raw text and was not
\* finalized before: it has no end and is not on the open-token stack.
FinishesFresh(i) ==
    /\ Called(i, "endToken")
    /\ last'[i].token \in DOMAIN engines[i].allTokens
    /\ last'[i].token \notin Advanced(i) \cup Open(i)
    /\ engines[i].allTokens[last'[i].token].raw # <<>>

\* C33: endToken on a token not finalized before. With leaveOpen the token gets an
\* empty children list, is pushed on top of the open-token stack and gets no end.
\* Without leaveOpen the token's end is the new position, the stack is unchanged and,
\* when the stack is not empty, the token is appended as the last child of the top
\* open token while every other children list stays as it was.
C33_EndTokenAttaches ==
    [][\A i \in DOMAIN engines :
          FinishesFresh(i) =>
            IF last'[i].leaveOpen
            THEN /\ engines'[i].allTokens[last'[i].token].children = <<(<<>>)>>
                 /\ engines'[i].openTokens = <<last'[i].token>> \o engines[i].openTokens
                 /\ engines'[i].allTokens[last'[i].token].end = <<>>
            ELSE /\ engines'[i].allTokens[last'[i].token].end = <<engines'[i].position>>
                 /\ engines'[i].openTokens = engines[i].openTokens
                 /\ \A u \in DOMAIN engines[i].allTokens :
                       Children(engines'[i])[u] =
                          IF engines[i].openTokens # <<>> /\ u = engines[i].openTokens[1]
                          THEN <<Append(Children(engines[i])[u][1], last'[i].token)>>
                          ELSE Children(engines[i])[u]]_vars

\* endToken without leaveOpen has just closed a token under an open token that is
\* another token: the closed token is the last child of the top of the stack.
C33_Witness ==
    \E i \in DOMAIN engines :
        /\ last[i].op = "endToken" /\ last[i].outcome = "returned" /\ ~last[i].leaveOpen
        /\ engines[i].allTokens[last[i].token].end # <<>>
        /\ engines[i].openTokens # <<>>
        /\ engines[i].openTokens[1] # last[i].token
        /\ engines[i].allTokens[engines[i].openTokens[1]].children = <<(<<last[i].token>>)>>

\* The ids under which the by-id index of x holds the recognizer registered as key.
IdsOf(x, key) == {id \in DOMAIN x.tokenProvidersById : x.tokenProvidersById[id] = key}
\* The token type a registry name maps to, if any: the name without its Ast prefix.
\* It is tabulated over the names the loaders of the specifications register.
KnownType ==
    [key \in {DefaultProviders[k][1] : k \in DOMAIN DefaultProviders} \cup {<<"A">>, <<"B">>} |->
        EnumValue(IF StartsWith(key, <<"A", "s", "t">>) THEN SliceFrom(key, 3) ELSE key)]
\* The indices of x hold the same recognizers: the sorted list holds each once, the
\* by-id index reaches exactly those, and they are the ones registered by name.
IndicesAgree(x) ==
    /\ Range(x.tokenProvidersSorted) = Range(x.tokenProvidersById)
    /\ Len(x.tokenProvidersSorted) = Cardinality(Range(x.tokenProvidersSorted))
    /\ Cardinality(DOMAIN x.tokenProvidersById) = Len(x.tokenProvidersSorted)
    /\ Range(x.tokenProvidersSorted) = x.tokenProviders

Occurrences(e, t) ==
    {pk \in (DOMAIN e.allTokens) \X (1..(2 * Len(e.allTokens))) :
        /\ e.allTokens[pk[1]].children # <<>>
        /\ pk[2] \in DOMAIN e.allTokens[pk[1]].children[1]
        /\ e.allTokens[pk[1]].children[1][pk[2]] = t}

\* C35: in the tree tokenize() returns, every finalized token but the root occurs
\* exactly once as a child, under exactly one parent: no children list holds a token
\* twice and no two lists hold the same token.
C35_EachTokenHasOneParent ==
    \A i \in DOMAIN engines :
        TokenizeReturned(i)
            => \A t \in Advanced(i) :
                  t \notin Range(last[i].root) => Cardinality(Occurrences(engines[i], t)) = 1

\* C36: the raw text of every finalized token is the source text from the token's
\* start offset on, as long as the raw text: a recognizer consumes only the
\* characters it matched, at the current position.
C36_RawIsSourceSlice ==
    \A i \in DOMAIN engines : \A t \in Finalized(i) :
        engines[i].allTokens[t].raw # <<>>
            => engines[i].allTokens[t].raw[1] =
                  Slice(engines[i].source, engines[i].allTokens[t].start.char,
                        engines[i].allTokens[t].start.char + Len(engines[i].allTokens[t].raw[1]))

\* C37: building a pipeline leaves the registry alone. Whatever nextToken calls were
\* made, the sorted list of an engine holds only recognizers the loader registered,
\* each at most once, and so do its by-id and by-name indices: nothing is added and
\* nothing that is not a recognizer gets in.
C37_PipelineLeavesRegistry ==
    \A i \in DOMAIN engines :
        Live(i) =>
            /\ Range(View(i).tokenProvidersSorted) \subseteq loader.tokenProviders
            /\ Len(View(i).tokenProvidersSorted) = Cardinality(Range(View(i).tokenProvidersSorted))
            /\ Range(View(i).tokenProvidersById) \subseteq loader.tokenProviders
            /\ View(i).tokenProviders \subseteq loader.tokenProviders

\* The raw-text lengths, added up, of the first n tokens of engine e that were
\* finalized: closed, or left open.
RECURSIVE Consumed(_, _)
Consumed(e, n) ==
    IF n = 0 THEN 0
    ELSE Consumed(e, n - 1)
         + (IF /\ e.allTokens[n].raw # <<>>
               /\ (e.allTokens[n].end # <<>> \/ n \in Range(e.openTokens))
            THEN Len(e.allTokens[n].raw[1]) ELSE 0)

\* C38: in every state of a parse the byte offset is the sum of the raw-text lengths
\* of the tokens finalized so far, whitespace and nested tokens included, and it is
\* at most the source length; the tokens of the all-tokens list have non-decreasing
\* start offsets; and no step makes the byte offset smaller.
C38_OffsetIsConsumedText ==
    /\ [](\A i \in DOMAIN engines :
             Live(i) =>
               /\ engines[i].position.char = Consumed(engines[i], Len(engines[i].allTokens))
               /\ engines[i].position.char <= Len(engines[i].source)
               /\ \A t \in DOMAIN engines[i].allTokens : \A u \in 1..(t - 1) :
                     engines[i].allTokens[u].start.char <= engines[i].allTokens[t].start.char)
    /\ [][\A i \in DOMAIN engines :
             Live(i) => engines'[i].position.char >= engines[i].position.char]_vars

\* A parse that has finalized a whitespace token and a token of several characters
\* under an open token.
C38_Witness ==
    \E i \in DOMAIN engines :
        /\ Live(i) /\ engines[i].openTokens # <<>>
        /\ \E w \in Advanced(i) : engines[i].allTokens[w].type = TokenType.Whitespace
        /\ \E t \in Advanced(i) : Len(engines[i].allTokens[t].raw[1]) > 1

\* What a step of engine i took off the remaining text, plus one when the step
\* unregistered the root recognizer, whose token is empty.
Progress(i) ==
    Len(engines[i].remainder) - Len(engines'[i].remainder)
      + (IF /\ AstGlobal \in Range(engines[i].tokenProvidersSorted)
            /\ AstGlobal \notin Range(engines'[i].tokenProvidersSorted)
         THEN 1 ELSE 0)

\* C39: tokenize() and nextToken() terminate because every match consumes input. In
\* a step that runs either of them the remaining text never grows, and the number of
\* tokens created and the number of recognizers invoked, whitespace retries and the
\* reads nested in a recognizer included, are bounded by the number of characters
\* consumed, plus one for the root recognizer when the step retires it; tokenize()
\* ends by returning the root, after nextToken gave the end-of-stream or the failure
\* value, or by a raised error.
C39_EveryMatchConsumes ==
    [][\A i \in DOMAIN engines :
          (Called(i, "nextToken") \/ Called(i, "tokenize")) =>
             /\ Len(engines'[i].remainder) <= Len(engines[i].remainder)
             /\ Len(engines'[i].allTokens) - Len(engines[i].allTokens) <= Progress(i)
             /\ Len(last'[i].fired) <= Progress(i)
             /\ Called(i, "tokenize") =>
                   \/ last'[i].outcome = "throw"
                   \/ last'[i].outcome = "returned" /\ last'[i].ended \in {"undefined", "false"}]_vars

\* tokenize() has returned after a run of several tokens with whitespace in between.
C39_Witness ==
    \E i \in DOMAIN engines :
        /\ Live(i) /\ last[i].op = "tokenize" /\ last[i].outcome = "returned"
        /\ Len(engines[i].allTokens) >= 5
        /\ TokensOfType(engines[i], TokenType.Whitespace) # {}

\* The recognizers whose getToken result asks for leaveOpen: the root recognizer and
\* the class recognizer.
LeavesOpen == {AstGlobal, AstClass}

\* C40: a token whose recognizer asks for leaveOpen is left open. After a nextToken
\* call in which such a recognizer built the token, the call has returned that
\* token, the token is the top of the open-token stack, it has a children list and
\* it has no end; this holds for the class recognizer too, which advances the
\* position for its token itself.
C40_LeaveOpenStaysOpen ==
    \A i \in DOMAIN engines :
        (/\ Live(i) /\ last[i].op = "nextToken" /\ last[i].fired # <<>>
         /\ last[i].fired[Len(last[i].fired)] \in LeavesOpen)
        => /\ last[i].outcome = "token"
           /\ engines[i].openTokens # <<>>
           /\ engines[i].openTokens[1] = last[i].token
           /\ engines[i].allTokens[last[i].token].children # <<>>
           /\ engines[i].allTokens[last[i].token].end = <<>>
====
